---------------------------- MODULE Spec2Model ----------------------------
(***************************************************************************)
(* Model of the nvapi-rs binding layer: the packed struct version tags of  *)
(* the sys crate (nvversion!), and the G-SYNC and Mosaic facades that      *)
(* marshal versioned structs into the NVAPI driver.  The driver is the     *)
(* environment: every driver call draws its status and the counts it       *)
(* writes back from small sets.                                            *)
(***************************************************************************)
EXTENDS Integers, Naturals, Sequences, FiniteSets, TLC

(***************************************************************************)
(* Bounds of the model.                                                    *)
(***************************************************************************)
\* the largest entry count the driver reports in an enumeration call
MaxCount == 2
\* the longest slice a caller passes to a setter
MaxLen == 2

(***************************************************************************)
(* C layout of #[repr(C)] structs (nvstruct!).  A field is <<size, align>>.*)
(***************************************************************************)
AlignUp(n, a) == ((n + a - 1) \div a) * a

RECURSIVE EndOffset(_, _)
\* offset after the last of `fields`, each placed at its alignment
EndOffset(fields, off) ==
    IF fields = <<>> THEN off
    ELSE EndOffset(Tail(fields), AlignUp(off, Head(fields)[2]) + Head(fields)[1])

RECURSIVE MaxAlign(_)
MaxAlign(fields) ==
    IF fields = <<>> THEN 1
    ELSE LET m == MaxAlign(Tail(fields))
         IN  IF Head(fields)[2] > m THEN Head(fields)[2] ELSE m

\* a struct as a field of its own size and alignment
nvstruct(fields) ==
    <<AlignUp(EndOffset(fields, 0), MaxAlign(fields)), MaxAlign(fields)>>

size_of(t) == t[1]

Arr(t, n) == <<t[1] * n, t[2]>>

RECURSIVE Rep(_, _)
\* n copies of x as a sequence
Rep(x, n) == IF n = 0 THEN <<>> ELSE <<x>> \o Rep(x, n - 1)

u8 == <<1, 1>>
u32 == <<4, 4>>
\* nv_declare_handle!: a transparent wrapper around *const c_void
Handle(p) == <<p, p>>

(***************************************************************************)
(* Program constants.                                                      *)
(***************************************************************************)
NVAPI_MAX_RJ45_PER_GSYNC == 2
NVAPI_MAX_MOSAIC_DISPLAY_ROWS == 8
NVAPI_MAX_MOSAIC_DISPLAY_COLUMNS == 8
NVAPI_MAX_MOSAIC_TOPOS == 16
NV_MOSAIC_TOPO_BRIEFS_MAX == 35
NV_MOSAIC_DISPLAY_SETTINGS_MAX == 40
NV_MOSAIC_MAX_TOPO_PER_TOPO_GROUP == 2
NV_MOSAIC_MAX_DISPLAYS == 64
NVAPI_MAX_THERMAL_SENSORS_PER_GPU == 3
NVAPI_MAX_THERMAL_INFO_ENTRIES == 4
NVAPI_MAX_THERMAL_LIMIT_ENTRIES == 4
\* crate::types (not among the sources): NVAPI_PHYSICAL_GPUS * NVAPI_ADVANCED_DISPLAY_HEADS
NVAPI_MAX_DISPLAYS == 128
\* crate::types (not among the sources)
NVAPI_MAX_GSYNC_DEVICES == 4

(***************************************************************************)
(* The structs of the sys crate, p the pointer width in bytes.             *)
(***************************************************************************)
NV_GSYNC_CAPABILITIES_V1 == nvstruct(<<u32, u32, u32, u32>>)
NV_GSYNC_CAPABILITIES_V2 == nvstruct(<<NV_GSYNC_CAPABILITIES_V1, u32>>)
NV_GSYNC_DISPLAY == nvstruct(<<u32, u32, u32, u32>>)
NV_GSYNC_GPU(p) == nvstruct(<<u32, Handle(p), u32, Handle(p), u32>>)
NV_GSYNC_DELAY == nvstruct(<<u32, u32, u32, u32, u32>>)
NV_GSYNC_CONTROL_PARAMS ==
    nvstruct(<<u32, u32, u32, u32, u32, u32, u32, u32, NV_GSYNC_DELAY, NV_GSYNC_DELAY>>)
NV_GSYNC_STATUS == nvstruct(<<u32, u32, u32, u32>>)
NV_GSYNC_STATUS_PARAMS_V1 ==
    nvstruct(<<u32, u32, Arr(u32, NVAPI_MAX_RJ45_PER_GSYNC),
               Arr(u32, NVAPI_MAX_RJ45_PER_GSYNC), u32, u32>>)
NV_GSYNC_STATUS_PARAMS_V2 == nvstruct(<<NV_GSYNC_STATUS_PARAMS_V1, u32, u32>>)

NV_MOSAIC_GPU_LAYOUT_ELEM(p) == nvstruct(<<Handle(p), u32, u32, u32>>)
NV_MOSAIC_TOPO_BRIEF == nvstruct(<<u32, u32, u32, u32>>)
GpuLayout(p) ==
    Arr(Arr(NV_MOSAIC_GPU_LAYOUT_ELEM(p), NVAPI_MAX_MOSAIC_DISPLAY_COLUMNS),
        NVAPI_MAX_MOSAIC_DISPLAY_ROWS)
NV_MOSAIC_TOPO_DETAILS(p) == nvstruct(<<u32, Handle(p), u32, u32, u32, GpuLayout(p)>>)
NV_MOSAIC_DISPLAY_SETTING_V1 == nvstruct(<<u32, u32, u32, u32, u32>>)
NV_MOSAIC_DISPLAY_SETTING_V2 == nvstruct(<<u32, u32, u32, u32, u32, u32>>)
NV_MOSAIC_SUPPORTED_TOPO_INFO_V1 ==
    nvstruct(<<u32, u32, Arr(NV_MOSAIC_TOPO_BRIEF, NV_MOSAIC_TOPO_BRIEFS_MAX), u32,
               Arr(NV_MOSAIC_DISPLAY_SETTING_V1, NV_MOSAIC_DISPLAY_SETTINGS_MAX)>>)
NV_MOSAIC_SUPPORTED_TOPO_INFO_V2 ==
    nvstruct(<<u32, u32, Arr(NV_MOSAIC_TOPO_BRIEF, NV_MOSAIC_TOPO_BRIEFS_MAX), u32,
               Arr(NV_MOSAIC_DISPLAY_SETTING_V2, NV_MOSAIC_DISPLAY_SETTINGS_MAX)>>)
NV_MOSAIC_TOPO_GROUP(p) ==
    nvstruct(<<u32, NV_MOSAIC_TOPO_BRIEF, u32,
               Arr(NV_MOSAIC_TOPO_DETAILS(p), NV_MOSAIC_MAX_TOPO_PER_TOPO_GROUP)>>)
NV_MOSAIC_GRID_TOPO_DISPLAY_V1 == nvstruct(<<u32, u32, u32, u32, u32>>)
NV_MOSAIC_GRID_TOPO_DISPLAY_V2 == nvstruct(<<u32, u32, u32, u32, u32, u32, u32>>)
NV_MOSAIC_DISPLAY_TOPO_STATUS_DISPLAY == nvstruct(<<u32, u32, u32, u32>>)
NV_MOSAIC_DISPLAY_TOPO_STATUS ==
    nvstruct(<<u32, u32, u32, u32,
               Arr(NV_MOSAIC_DISPLAY_TOPO_STATUS_DISPLAY, NVAPI_MAX_DISPLAYS)>>)
NV_MOSAIC_TOPOLOGY(p) == nvstruct(<<u32, u32, u32, GpuLayout(p)>>)
NV_MOSAIC_SUPPORTED_TOPOLOGIES(p) ==
    nvstruct(<<u32, u32, Arr(NV_MOSAIC_TOPOLOGY(p), NVAPI_MAX_MOSAIC_TOPOS)>>)
NV_MOSAIC_GRID_TOPO_V1 ==
    nvstruct(<<u32, u32, u32, u32, u32,
               Arr(NV_MOSAIC_GRID_TOPO_DISPLAY_V1, NV_MOSAIC_MAX_DISPLAYS),
               NV_MOSAIC_DISPLAY_SETTING_V1>>)
NV_MOSAIC_GRID_TOPO_V2 ==
    nvstruct(<<u32, u32, u32, u32, u32,
               Arr(NV_MOSAIC_GRID_TOPO_DISPLAY_V2, NV_MOSAIC_MAX_DISPLAYS),
               NV_MOSAIC_DISPLAY_SETTING_V1>>)

NV_GPU_THERMAL_SETTINGS_SENSOR == nvstruct(<<u32, u32, u32, u32, u32>>)
NV_GPU_THERMAL_SETTINGS_V1 ==
    nvstruct(<<u32, u32, Arr(NV_GPU_THERMAL_SETTINGS_SENSOR, NVAPI_MAX_THERMAL_SENSORS_PER_GPU)>>)
NV_GPU_THERMAL_INFO_ENTRY == nvstruct(<<u32, u32, u32, u32, u32, u32>>)
NV_GPU_THERMAL_INFO_V2 ==
    nvstruct(<<u32, u8, u8, Arr(u8, 2),
               Arr(NV_GPU_THERMAL_INFO_ENTRY, NVAPI_MAX_THERMAL_INFO_ENTRIES)>>)
NV_GPU_CLIENT_THERMAL_POLICIES_STATUS_ENTRY == nvstruct(<<u32, u32, u32>>)
NV_GPU_CLIENT_THERMAL_POLICIES_STATUS_V2 ==
    nvstruct(<<u32, u32,
               Arr(NV_GPU_CLIENT_THERMAL_POLICIES_STATUS_ENTRY, NVAPI_MAX_THERMAL_LIMIT_ENTRIES)>>)

(***************************************************************************)
(* The hand-written size constants handed to nvversion!.                   *)
(***************************************************************************)
NV_GSYNC_CAPABILITIES_V1_SIZE == 4 * 4
NV_GSYNC_CAPABILITIES_V2_SIZE == NV_GSYNC_CAPABILITIES_V1_SIZE + 4
NV_GPU_THERMAL_SETTINGS_V1_SIZE == 4 * 2 + (4 * 5) * NVAPI_MAX_THERMAL_SENSORS_PER_GPU
NV_GPU_THERMAL_INFO_ENTRY_SIZE == 4 * 6
NV_GPU_THERMAL_INFO_V2_SIZE ==
    4 * 2 + NV_GPU_THERMAL_INFO_ENTRY_SIZE * NVAPI_MAX_THERMAL_INFO_ENTRIES
NV_GPU_CLIENT_THERMAL_POLICIES_STATUS_ENTRY_SIZE == 4 * 3
NV_GPU_CLIENT_THERMAL_POLICIES_STATUS_V2_SIZE ==
    4 * 2 + NV_GPU_CLIENT_THERMAL_POLICIES_STATUS_ENTRY_SIZE * NVAPI_MAX_THERMAL_LIMIT_ENTRIES

(***************************************************************************)
(* nvversion!: ($sz) as u32 | ($ver as u32) << 16.                         *)
(***************************************************************************)
\* 1 << 16; the sizes and versions of the sys crate stay far below 2^31, so the
\* `as u32` casts change nothing and the shift drops the bits above bit 15 of ver
Pow2_16 == 65536

RECURSIVE BitOr(_, _)
BitOr(a, b) ==
    IF a = 0 THEN b
    ELSE IF b = 0 THEN a
    ELSE (IF a % 2 = 1 \/ b % 2 = 1 THEN 1 ELSE 0) + 2 * BitOr(a \div 2, b \div 2)

\* nvversion! with the version shifted by 8 instead of 16
nvversion_shl8(sz, ver) == BitOr(sz, (ver % Pow2_16) * 256)

nvversion(sz, ver) == BitOr(sz, (ver % Pow2_16) * Pow2_16)

\* crate::types::GET_NVAPI_SIZE, as the nvversion! test uses it: the low 16 bits
GET_NVAPI_SIZE(tag) == tag % Pow2_16


(***************************************************************************)
(* The version constants declared with nvversion!.                         *)
(***************************************************************************)
NV_GSYNC_CAPABILITIES_VER_1 == nvversion(NV_GSYNC_CAPABILITIES_V1_SIZE, 1)
NV_GSYNC_CAPABILITIES_VER_2 == nvversion(NV_GSYNC_CAPABILITIES_V2_SIZE, 2)
NV_GSYNC_CAPABILITIES_VER == NV_GSYNC_CAPABILITIES_VER_2
NV_GSYNC_DISPLAY_VER == nvversion(size_of(NV_GSYNC_DISPLAY), 1)
NV_GSYNC_GPU_VER(p) == nvversion(size_of(NV_GSYNC_GPU(p)), 1)
NV_GSYNC_DELAY_VER == nvversion(size_of(NV_GSYNC_DELAY), 1)
NV_GSYNC_CONTROL_PARAMS_VER == nvversion(size_of(NV_GSYNC_CONTROL_PARAMS), 1)
NV_GSYNC_STATUS_VER == nvversion(size_of(NV_GSYNC_STATUS), 1)
NV_GSYNC_STATUS_PARAMS_VER_1 == nvversion(size_of(NV_GSYNC_STATUS_PARAMS_V1), 1)
NV_GSYNC_STATUS_PARAMS_VER_2 == nvversion(size_of(NV_GSYNC_STATUS_PARAMS_V2), 2)
NV_GSYNC_STATUS_PARAMS_VER == NV_GSYNC_STATUS_PARAMS_VER_1

NVAPI_MOSAIC_TOPO_BRIEF_VER == nvversion(size_of(NV_MOSAIC_TOPO_BRIEF), 1)
NVAPI_MOSAIC_TOPO_DETAILS_VER(p) == nvversion(size_of(NV_MOSAIC_TOPO_DETAILS(p)), 1)
NVAPI_MOSAIC_DISPLAY_SETTING_VER1 == nvversion(size_of(NV_MOSAIC_DISPLAY_SETTING_V1), 1)
NVAPI_MOSAIC_DISPLAY_SETTING_VER2 == nvversion(size_of(NV_MOSAIC_DISPLAY_SETTING_V2), 2)
NVAPI_MOSAIC_DISPLAY_SETTING_VER == NVAPI_MOSAIC_DISPLAY_SETTING_VER2
NVAPI_MOSAIC_SUPPORTED_TOPO_INFO_VER1 == nvversion(size_of(NV_MOSAIC_SUPPORTED_TOPO_INFO_V1), 1)
NVAPI_MOSAIC_SUPPORTED_TOPO_INFO_VER2 == nvversion(size_of(NV_MOSAIC_SUPPORTED_TOPO_INFO_V2), 2)
NVAPI_MOSAIC_SUPPORTED_TOPO_INFO_VER == NVAPI_MOSAIC_SUPPORTED_TOPO_INFO_VER2
NVAPI_MOSAIC_TOPO_GROUP_VER(p) == nvversion(size_of(NV_MOSAIC_TOPO_GROUP(p)), 1)
NV_MOSAIC_DISPLAY_TOPO_STATUS_VER == nvversion(size_of(NV_MOSAIC_DISPLAY_TOPO_STATUS), 1)
NVAPI_MOSAIC_TOPOLOGY_VER(p) == nvversion(size_of(NV_MOSAIC_TOPOLOGY(p)), 1)
NVAPI_MOSAIC_SUPPORTED_TOPOLOGIES_VER(p) ==
    nvversion(size_of(NV_MOSAIC_SUPPORTED_TOPOLOGIES(p)), 1)
NV_MOSAIC_GRID_TOPO_VER1 == nvversion(size_of(NV_MOSAIC_GRID_TOPO_V1), 1)
NV_MOSAIC_GRID_TOPO_VER2 == nvversion(size_of(NV_MOSAIC_GRID_TOPO_V2), 2)
NV_MOSAIC_GRID_TOPO_VER == NV_MOSAIC_GRID_TOPO_VER2

\* test_mosaic_enum_display_grids_c_compat: the byte size of one grid in buffer_v1
\* and in buffer_v2, and the version it writes at the start of each grid
buffer_v1_grid_size == 2600
buffer_v1_version == 68136
buffer_v2_grid_size == 3624
buffer_v2_version == 134696

\* NV_GPU_THERMAL_SETTINGS_V2 is a type alias of NV_GPU_THERMAL_SETTINGS_V1
NV_GPU_THERMAL_SETTINGS_VER_1 == nvversion(NV_GPU_THERMAL_SETTINGS_V1_SIZE, 1)
NV_GPU_THERMAL_SETTINGS_VER_2 == nvversion(NV_GPU_THERMAL_SETTINGS_V1_SIZE, 2)
NV_GPU_THERMAL_INFO_VER_2 == nvversion(NV_GPU_THERMAL_INFO_V2_SIZE, 2)
NV_GPU_CLIENT_THERMAL_POLICIES_STATUS_VER_2 ==
    nvversion(NV_GPU_CLIENT_THERMAL_POLICIES_STATUS_V2_SIZE, 2)

\* the constants declared as nvversion!(NAME(STRUCT = size, ver))
VersionNames ==
    {"NV_GSYNC_CAPABILITIES_VER_1", "NV_GSYNC_CAPABILITIES_VER_2",
     "NV_GSYNC_DISPLAY_VER", "NV_GSYNC_GPU_VER", "NV_GSYNC_DELAY_VER",
     "NV_GSYNC_CONTROL_PARAMS_VER", "NV_GSYNC_STATUS_VER",
     "NV_GSYNC_STATUS_PARAMS_VER_1", "NV_GSYNC_STATUS_PARAMS_VER_2",
     "NVAPI_MOSAIC_TOPO_BRIEF_VER", "NVAPI_MOSAIC_TOPO_DETAILS_VER",
     "NVAPI_MOSAIC_DISPLAY_SETTING_VER1", "NVAPI_MOSAIC_DISPLAY_SETTING_VER2",
     "NVAPI_MOSAIC_SUPPORTED_TOPO_INFO_VER1", "NVAPI_MOSAIC_SUPPORTED_TOPO_INFO_VER2",
     "NVAPI_MOSAIC_TOPO_GROUP_VER", "NV_MOSAIC_DISPLAY_TOPO_STATUS_VER",
     "NVAPI_MOSAIC_TOPOLOGY_VER", "NVAPI_MOSAIC_SUPPORTED_TOPOLOGIES_VER",
     "NV_MOSAIC_GRID_TOPO_VER1", "NV_MOSAIC_GRID_TOPO_VER2",
     "NV_GPU_THERMAL_SETTINGS_VER_1", "NV_GPU_THERMAL_SETTINGS_VER_2",
     "NV_GPU_THERMAL_INFO_VER_2", "NV_GPU_CLIENT_THERMAL_POLICIES_STATUS_VER_2"}

\* the struct kind a version constant belongs to: the struct name without its _Vn
KindOf(name) ==
    CASE name = "NV_GSYNC_CAPABILITIES_VER_1" -> "NV_GSYNC_CAPABILITIES"
      [] name = "NV_GSYNC_CAPABILITIES_VER_2" -> "NV_GSYNC_CAPABILITIES"
      [] name = "NV_GSYNC_DISPLAY_VER" -> "NV_GSYNC_DISPLAY"
      [] name = "NV_GSYNC_GPU_VER" -> "NV_GSYNC_GPU"
      [] name = "NV_GSYNC_DELAY_VER" -> "NV_GSYNC_DELAY"
      [] name = "NV_GSYNC_CONTROL_PARAMS_VER" -> "NV_GSYNC_CONTROL_PARAMS"
      [] name = "NV_GSYNC_STATUS_VER" -> "NV_GSYNC_STATUS"
      [] name = "NV_GSYNC_STATUS_PARAMS_VER_1" -> "NV_GSYNC_STATUS_PARAMS"
      [] name = "NV_GSYNC_STATUS_PARAMS_VER_2" -> "NV_GSYNC_STATUS_PARAMS"
      [] name = "NVAPI_MOSAIC_TOPO_BRIEF_VER" -> "NV_MOSAIC_TOPO_BRIEF"
      [] name = "NVAPI_MOSAIC_TOPO_DETAILS_VER" -> "NV_MOSAIC_TOPO_DETAILS"
      [] name = "NVAPI_MOSAIC_DISPLAY_SETTING_VER1" -> "NV_MOSAIC_DISPLAY_SETTING"
      [] name = "NVAPI_MOSAIC_DISPLAY_SETTING_VER2" -> "NV_MOSAIC_DISPLAY_SETTING"
      [] name = "NVAPI_MOSAIC_SUPPORTED_TOPO_INFO_VER1" -> "NV_MOSAIC_SUPPORTED_TOPO_INFO"
      [] name = "NVAPI_MOSAIC_SUPPORTED_TOPO_INFO_VER2" -> "NV_MOSAIC_SUPPORTED_TOPO_INFO"
      [] name = "NVAPI_MOSAIC_TOPO_GROUP_VER" -> "NV_MOSAIC_TOPO_GROUP"
      [] name = "NV_MOSAIC_DISPLAY_TOPO_STATUS_VER" -> "NV_MOSAIC_DISPLAY_TOPO_STATUS"
      [] name = "NVAPI_MOSAIC_TOPOLOGY_VER" -> "NV_MOSAIC_TOPOLOGY"
      [] name = "NVAPI_MOSAIC_SUPPORTED_TOPOLOGIES_VER" -> "NV_MOSAIC_SUPPORTED_TOPOLOGIES"
      [] name = "NV_MOSAIC_GRID_TOPO_VER1" -> "NV_MOSAIC_GRID_TOPO"
      [] name = "NV_MOSAIC_GRID_TOPO_VER2" -> "NV_MOSAIC_GRID_TOPO"
      [] name = "NV_GPU_THERMAL_SETTINGS_VER_1" -> "NV_GPU_THERMAL_SETTINGS"
      [] name = "NV_GPU_THERMAL_SETTINGS_VER_2" -> "NV_GPU_THERMAL_SETTINGS"
      [] name = "NV_GPU_THERMAL_INFO_VER_2" -> "NV_GPU_THERMAL_INFO"
      [] name = "NV_GPU_CLIENT_THERMAL_POLICIES_STATUS_VER_2" -> "NV_GPU_CLIENT_THERMAL_POLICIES_STATUS"

\* one declaration: the constant, the struct whose size the nvversion! test compares
\* it with, and the version number
VersionEntry(name, p) ==
    CASE name = "NV_GSYNC_CAPABILITIES_VER_1" ->
        [name |-> name, kind |-> KindOf(name), tag |-> NV_GSYNC_CAPABILITIES_VER_1,
         struct |-> NV_GSYNC_CAPABILITIES_V1, ver |-> 1]
      [] name = "NV_GSYNC_CAPABILITIES_VER_2" ->
        [name |-> name, kind |-> KindOf(name), tag |-> NV_GSYNC_CAPABILITIES_VER_2,
         struct |-> NV_GSYNC_CAPABILITIES_V2, ver |-> 2]
      [] name = "NV_GSYNC_DISPLAY_VER" ->
        [name |-> name, kind |-> KindOf(name), tag |-> NV_GSYNC_DISPLAY_VER,
         struct |-> NV_GSYNC_DISPLAY, ver |-> 1]
      [] name = "NV_GSYNC_GPU_VER" ->
        [name |-> name, kind |-> KindOf(name), tag |-> NV_GSYNC_GPU_VER(p),
         struct |-> NV_GSYNC_GPU(p), ver |-> 1]
      [] name = "NV_GSYNC_DELAY_VER" ->
        [name |-> name, kind |-> KindOf(name), tag |-> NV_GSYNC_DELAY_VER,
         struct |-> NV_GSYNC_DELAY, ver |-> 1]
      [] name = "NV_GSYNC_CONTROL_PARAMS_VER" ->
        [name |-> name, kind |-> KindOf(name), tag |-> NV_GSYNC_CONTROL_PARAMS_VER,
         struct |-> NV_GSYNC_CONTROL_PARAMS, ver |-> 1]
      [] name = "NV_GSYNC_STATUS_VER" ->
        [name |-> name, kind |-> KindOf(name), tag |-> NV_GSYNC_STATUS_VER,
         struct |-> NV_GSYNC_STATUS, ver |-> 1]
      [] name = "NV_GSYNC_STATUS_PARAMS_VER_1" ->
        [name |-> name, kind |-> KindOf(name), tag |-> NV_GSYNC_STATUS_PARAMS_VER_1,
         struct |-> NV_GSYNC_STATUS_PARAMS_V1, ver |-> 1]
      [] name = "NV_GSYNC_STATUS_PARAMS_VER_2" ->
        [name |-> name, kind |-> KindOf(name), tag |-> NV_GSYNC_STATUS_PARAMS_VER_2,
         struct |-> NV_GSYNC_STATUS_PARAMS_V2, ver |-> 2]
      [] name = "NVAPI_MOSAIC_TOPO_BRIEF_VER" ->
        [name |-> name, kind |-> KindOf(name), tag |-> NVAPI_MOSAIC_TOPO_BRIEF_VER,
         struct |-> NV_MOSAIC_TOPO_BRIEF, ver |-> 1]
      [] name = "NVAPI_MOSAIC_TOPO_DETAILS_VER" ->
        [name |-> name, kind |-> KindOf(name), tag |-> NVAPI_MOSAIC_TOPO_DETAILS_VER(p),
         struct |-> NV_MOSAIC_TOPO_DETAILS(p), ver |-> 1]
      [] name = "NVAPI_MOSAIC_DISPLAY_SETTING_VER1" ->
        [name |-> name, kind |-> KindOf(name), tag |-> NVAPI_MOSAIC_DISPLAY_SETTING_VER1,
         struct |-> NV_MOSAIC_DISPLAY_SETTING_V1, ver |-> 1]
      [] name = "NVAPI_MOSAIC_DISPLAY_SETTING_VER2" ->
        [name |-> name, kind |-> KindOf(name), tag |-> NVAPI_MOSAIC_DISPLAY_SETTING_VER2,
         struct |-> NV_MOSAIC_DISPLAY_SETTING_V2, ver |-> 2]
      [] name = "NVAPI_MOSAIC_SUPPORTED_TOPO_INFO_VER1" ->
        [name |-> name, kind |-> KindOf(name), tag |-> NVAPI_MOSAIC_SUPPORTED_TOPO_INFO_VER1,
         struct |-> NV_MOSAIC_SUPPORTED_TOPO_INFO_V1, ver |-> 1]
      [] name = "NVAPI_MOSAIC_SUPPORTED_TOPO_INFO_VER2" ->
        [name |-> name, kind |-> KindOf(name), tag |-> NVAPI_MOSAIC_SUPPORTED_TOPO_INFO_VER2,
         struct |-> NV_MOSAIC_SUPPORTED_TOPO_INFO_V2, ver |-> 2]
      [] name = "NVAPI_MOSAIC_TOPO_GROUP_VER" ->
        [name |-> name, kind |-> KindOf(name), tag |-> NVAPI_MOSAIC_TOPO_GROUP_VER(p),
         struct |-> NV_MOSAIC_TOPO_GROUP(p), ver |-> 1]
      [] name = "NV_MOSAIC_DISPLAY_TOPO_STATUS_VER" ->
        [name |-> name, kind |-> KindOf(name), tag |-> NV_MOSAIC_DISPLAY_TOPO_STATUS_VER,
         struct |-> NV_MOSAIC_DISPLAY_TOPO_STATUS, ver |-> 1]
      [] name = "NVAPI_MOSAIC_TOPOLOGY_VER" ->
        [name |-> name, kind |-> KindOf(name), tag |-> NVAPI_MOSAIC_TOPOLOGY_VER(p),
         struct |-> NV_MOSAIC_TOPOLOGY(p), ver |-> 1]
      [] name = "NVAPI_MOSAIC_SUPPORTED_TOPOLOGIES_VER" ->
        [name |-> name, kind |-> KindOf(name), tag |-> NVAPI_MOSAIC_SUPPORTED_TOPOLOGIES_VER(p),
         struct |-> NV_MOSAIC_SUPPORTED_TOPOLOGIES(p), ver |-> 1]
      [] name = "NV_MOSAIC_GRID_TOPO_VER1" ->
        [name |-> name, kind |-> KindOf(name), tag |-> NV_MOSAIC_GRID_TOPO_VER1,
         struct |-> NV_MOSAIC_GRID_TOPO_V1, ver |-> 1]
      [] name = "NV_MOSAIC_GRID_TOPO_VER2" ->
        [name |-> name, kind |-> KindOf(name), tag |-> NV_MOSAIC_GRID_TOPO_VER2,
         struct |-> NV_MOSAIC_GRID_TOPO_V2, ver |-> 2]
      [] name = "NV_GPU_THERMAL_SETTINGS_VER_1" ->
        [name |-> name, kind |-> KindOf(name), tag |-> NV_GPU_THERMAL_SETTINGS_VER_1,
         struct |-> NV_GPU_THERMAL_SETTINGS_V1, ver |-> 1]
      [] name = "NV_GPU_THERMAL_SETTINGS_VER_2" ->
        [name |-> name, kind |-> KindOf(name), tag |-> NV_GPU_THERMAL_SETTINGS_VER_2,
         struct |-> NV_GPU_THERMAL_SETTINGS_V1, ver |-> 2]
      [] name = "NV_GPU_THERMAL_INFO_VER_2" ->
        [name |-> name, kind |-> KindOf(name), tag |-> NV_GPU_THERMAL_INFO_VER_2,
         struct |-> NV_GPU_THERMAL_INFO_V2, ver |-> 2]
      [] name = "NV_GPU_CLIENT_THERMAL_POLICIES_STATUS_VER_2" ->
        [name |-> name, kind |-> KindOf(name), tag |-> NV_GPU_CLIENT_THERMAL_POLICIES_STATUS_VER_2,
         struct |-> NV_GPU_CLIENT_THERMAL_POLICIES_STATUS_V2, ver |-> 2]

VersionTable(p) == { VersionEntry(n, p) : n \in VersionNames }

\* the value of the version constant `name`
TagOf(name, p) == VersionEntry(name, p).tag

\* the version constants declared for one struct kind
TagNamesOf(kind) == { n \in VersionNames : KindOf(n) = kind }

(***************************************************************************)
(* State.                                                                  *)
(***************************************************************************)
VARIABLES
    ptrBytes,   \* pointer width of the build target, in bytes
    rejects,    \* the version constants the installed driver does not accept
    op,         \* the facade operation running or last run
    pc,         \* the caller's position: "idle", inside an enumeration, "done"
    args,       \* the caller's arguments to op
    calls,      \* the driver calls op has made, in order
    bufs,       \* the Vecs op allocated for its fill call
    result,     \* what op returned
    exports,    \* the interface IDs the installed driver knows, each with its entry point
    CACHE,      \* each wrapper's static CACHE slot: 0 or a function pointer
    thread,     \* each thread's position inside a wrapper call, with its locals
    invoked,    \* the <<wrapper, pointer>> pairs that were called through
    device,     \* what the driver keeps: control parameters, sync states, Mosaic topology
    session,    \* a caller that passes back what it was given: its last call
    value       \* a value of a generated enum or flag type, and what was done with it

facade == <<ptrBytes, rejects, op, pc, args, calls, bufs, result>>
resolver == <<exports, CACHE, thread, invoked>>
session_vars == <<device, session>>
vars == <<facade, resolver, session_vars, value>>

(***************************************************************************)
(* The driver, as the facade sees it.                                      *)
(***************************************************************************)
Status == {"Ok", "IncompatibleStructVersion", "NvidiaDeviceNotFound", "InsufficientBuffer"}

\* the version constants an older driver may not know
RejectableTags == {"NV_MOSAIC_GRID_TOPO_VER2", "NV_GSYNC_CAPABILITIES_VER_2"}

\* a struct as it crosses the boundary: the version constant of the Rust type it is
\* sent as, and the value of its version field
Sent(variant, version) == [variant |-> variant, version |-> version]

\* the driver takes a struct whose version field is a tag of its kind that it knows
Accepts(s) ==
    \E n \in TagNamesOf(KindOf(s.variant)) \ rejects :
        TagOf(n, ptrBytes) = s.version

\* a call may fail for any reason, and cannot succeed on a struct the driver rejects
Replies(sent) ==
    IF \A i \in 1..Len(sent) : Accepts(sent[i]) THEN Status ELSE Status \ {"Ok"}

\* one driver call: the bound function, the enumeration path and phase, the structs
\* sent, the capacities of the buffers passed, the status and the counts written back
Call(fn, path, phase, sent, cap, st, out) ==
    [fn |-> fn, path |-> path, phase |-> phase, sent |-> sent, cap |-> cap,
     status |-> st, out |-> out]

(***************************************************************************)
(* Results.  lens are the lengths of the sequences an Ok result holds.     *)
(***************************************************************************)
NoResult == [kind |-> "None", err |-> "None", lens |-> <<>>]
Ok(lens) == [kind |-> "Ok", err |-> "None", lens |-> lens]
Err(st) == [kind |-> "Err", err |-> st, lens |-> <<>>]
\* a panic of safe code (an index out of range)
Panic == [kind |-> "Panic", err |-> "None", lens |-> <<>>]
\* the abort of a build that checks the preconditions of unsafe library calls
Abort == [kind |-> "Abort", err |-> "None", lens |-> <<>>]

\* nvapi_sys::status_result: zero is success, any other status the error
status_result(st) == IF st = "Ok" THEN Ok(<<>>) ELSE Err(st)

\* Result::map(|_| value)
Map(r, lens) == IF r.kind = "Ok" THEN Ok(lens) ELSE r

\* the `?` operator: an Err leaves the function at once
returns_early_never(r) == FALSE

returns_early(r) == r.kind = "Err"

\* Vec::with_capacity(count) followed by count pushes of a zeroed element whose
\* version field is left as zeroed() made it
with_capacity_zeroed(count, variant) ==
    [cap |-> count, len |-> count, variant |-> variant, version |-> 0]

\* Vec::with_capacity(count) followed by count pushes of a zeroed element whose
\* version field is set to the constant `variant`
with_capacity(count, variant) ==
    [cap |-> count, len |-> count, variant |-> variant,
     version |-> TagOf(variant, ptrBytes)]

\* the elements behind as_mut_ptr() at the fill call
Elements(v) == [i \in 1..v.len |-> Sent(v.variant, v.version)]

\* Vec::set_len that leaves the length as allocated
set_len_keep(v, count) == v

\* Vec::set_len(count): the length becomes count, unchecked
set_len(v, count) == [v EXCEPT !.len = count]

\* the function returns the Vecs vs.  A length beyond the capacity is undefined
\* behaviour: the build either hands out elements beyond the allocation or aborts
\* on the violated precondition of set_len
Returns(vs, lens) ==
    IF \A i \in 1..Len(vs) : vs[i].len <= vs[i].cap THEN {Ok(lens)} ELSE {Ok(lens), Abort}

Idle == pc = "idle"

NoArgs == [none |-> TRUE]

\* an operation that makes one driver call and maps its status to a value that
\* holds sequences of the lengths lens
SingleCall(name, a, fn, sent, lens) ==
    /\ \E st \in Replies(sent) :
        /\ calls' = <<Call(fn, name, "call", sent, <<>>, st, <<>>)>>
        /\ result' = Map(status_result(st), lens)
    /\ op' = name
    /\ args' = a
    /\ bufs' = <<>>
    /\ pc' = "done"
    /\ UNCHANGED <<ptrBytes, rejects, resolver, session_vars, value>>

(***************************************************************************)
(* GSyncDevice::get_topology, and get_physical_gpus on top of it.          *)
(***************************************************************************)
\* the count call, the allocation and the pre-tagging
get_topology_count(name) ==
    /\ Idle
    /\ \E st \in Replies(<<>>), g \in 0..MaxCount, d \in 0..MaxCount :
        LET out == IF st = "Ok" THEN <<g, d>> ELSE <<0, 0>>
            r == status_result(st)
        IN  /\ calls' = <<Call("NvAPI_GSync_GetTopology", "get_topology", "count",
                               <<>>, <<>>, st, out)>>
            /\ IF returns_early(r)
               THEN /\ result' = r
                    /\ bufs' = <<>>
                    /\ pc' = "done"
               ELSE /\ result' = NoResult
                    /\ bufs' = <<with_capacity(out[1], "NV_GSYNC_GPU_VER"),
                                 with_capacity(out[2], "NV_GSYNC_DISPLAY_VER")>>
                    /\ pc' = "get_topology_fill"
    /\ op' = name
    /\ args' = NoArgs
    /\ UNCHANGED <<ptrBytes, rejects, resolver, session_vars, value>>

get_topology == get_topology_count("get_topology")

get_physical_gpus == get_topology_count("get_physical_gpus")

\* the fill call and the two set_len
get_topology_fill ==
    /\ pc = "get_topology_fill"
    /\ LET sent == Elements(bufs[1]) \o Elements(bufs[2])
       IN \E st \in Replies(sent), g \in 0..MaxCount, d \in 0..MaxCount :
        LET out == IF st = "Ok" THEN <<g, d>> ELSE <<bufs[1].cap, bufs[2].cap>>
            r == status_result(st)
            gpus == set_len(bufs[1], out[1])
            displays == set_len(bufs[2], out[2])
            lens == IF op = "get_physical_gpus" THEN <<gpus.len>>
                    ELSE <<gpus.len, displays.len>>
        IN  /\ calls' = Append(calls,
                   Call("NvAPI_GSync_GetTopology", "get_topology", "fill", sent,
                        <<bufs[1].cap, bufs[2].cap>>, st, out))
            /\ IF returns_early(r)
               THEN /\ result' = r
                    /\ bufs' = <<>>
               ELSE /\ result' \in Returns(<<gpus, displays>>, lens)
                    /\ bufs' = <<gpus, displays>>
    /\ pc' = "done"
    /\ UNCHANGED <<ptrBytes, rejects, op, args, resolver, session_vars, value>>

(***************************************************************************)
(* Mosaic::enum_display_grids with its V2 and V1 helpers.                  *)
(***************************************************************************)
\* the match of enum_display_grids that falls back on every error
falls_back_on_any(r) == r.kind = "Err"

\* the match arm Err(Status::IncompatibleStructVersion) of enum_display_grids
falls_back(r) == r.kind = "Err" /\ r.err = "IncompatibleStructVersion"

\* enum_display_grids_v2 returned r to enum_display_grids
v2_returned(r) ==
    IF falls_back(r)
    THEN /\ result' = NoResult
         /\ pc' = "enum_display_grids_v1"
    ELSE /\ result' = r
         /\ pc' = "done"

\* enum_display_grids_v1 returned r, which enum_display_grids returns
v1_returned(r) ==
    /\ result' = r
    /\ pc' = "done"

\* the helper entered as `path` returned r
helper_returned(path, r) ==
    IF path = "enum_display_grids_v2" THEN v2_returned(r) ELSE v1_returned(r)

\* the count call of either helper, the zero test, the allocation and the pre-tagging
grids_count(path, variant, log, fill) ==
    \E st \in Replies(<<>>), c \in 0..MaxCount :
        LET count == IF st = "Ok" THEN c ELSE 0
            r == status_result(st)
        IN  /\ calls' = Append(log,
                   Call("NvAPI_Mosaic_EnumDisplayGrids", path, "count", <<>>, <<>>,
                        st, <<count>>))
            /\ IF returns_early(r)
               THEN /\ helper_returned(path, r)
                    /\ bufs' = <<>>
               ELSE IF count = 0
               THEN /\ helper_returned(path, Ok(<<0>>))
                    /\ bufs' = <<>>
               ELSE /\ result' = NoResult
                    /\ bufs' = <<with_capacity(count, variant)>>
                    /\ pc' = fill

\* the fill call of either helper and the set_len
grids_fill(path) ==
    LET sent == Elements(bufs[1])
    IN \E st \in Replies(sent), c \in 0..MaxCount :
        LET count == IF st = "Ok" THEN c ELSE bufs[1].cap
            r == status_result(st)
            grids == set_len(bufs[1], count)
        IN  /\ calls' = Append(calls,
                   Call("NvAPI_Mosaic_EnumDisplayGrids", path, "fill", sent,
                        <<bufs[1].cap>>, st, <<count>>))
            /\ IF returns_early(r)
               THEN /\ helper_returned(path, r)
                    /\ bufs' = <<>>
               ELSE /\ \E x \in Returns(<<grids>>, <<grids.len>>) : helper_returned(path, x)
                    /\ bufs' = <<grids>>

\* enum_display_grids up to the count call of enum_display_grids_v2
enum_display_grids ==
    /\ Idle
    /\ grids_count("enum_display_grids_v2", "NV_MOSAIC_GRID_TOPO_VER2", <<>>,
                   "enum_display_grids_v2_fill")
    /\ op' = "enum_display_grids"
    /\ args' = NoArgs
    /\ UNCHANGED <<ptrBytes, rejects, resolver, session_vars, value>>

enum_display_grids_v2_fill ==
    /\ pc = "enum_display_grids_v2_fill"
    /\ grids_fill("enum_display_grids_v2")
    /\ UNCHANGED <<ptrBytes, rejects, op, args, resolver, session_vars, value>>

enum_display_grids_v1 ==
    /\ pc = "enum_display_grids_v1"
    /\ grids_count("enum_display_grids_v1", "NV_MOSAIC_GRID_TOPO_VER1", calls,
                   "enum_display_grids_v1_fill")
    /\ UNCHANGED <<ptrBytes, rejects, op, args, resolver, session_vars, value>>

\* the fill call of enum_display_grids_v1; each V1 grid read becomes one V2 grid
enum_display_grids_v1_fill ==
    /\ pc = "enum_display_grids_v1_fill"
    /\ grids_fill("enum_display_grids_v1")
    /\ UNCHANGED <<ptrBytes, rejects, op, args, resolver, session_vars, value>>

(***************************************************************************)
(* What callers pass in.                                                   *)
(***************************************************************************)
\* the values a caller leaves in a version field: zeroed(), the right constant,
\* a stale or foreign value
CallerVersions(tag) == {0, tag, 1}

DisplaySyncState == {1, 2}

DisplayId == {1, 2}

\* NV_GSYNC_DISPLAY entries a caller builds from zeroed(): it sets the id and the
\* state, and the version or not
Displays ==
    [version : CallerVersions(NV_GSYNC_DISPLAY_VER), displayId : DisplayId,
     isMasterable : {0}, syncState : DisplaySyncState]

\* the hardware: whether the display with this id can be the master
isMasterable(id) == IF id = 1 THEN 1 ELSE 0

\* NV_GSYNC_DISPLAY entries as get_topology returns them: the driver has filled in
\* every field
TopologyDisplays ==
    [version : {NV_GSYNC_DISPLAY_VER}, displayId : DisplayId, isMasterable : {0, 1},
     syncState : DisplaySyncState]

\* the fields of NV_MOSAIC_GRID_TOPO the facade reads or writes
Grids == [version : {0, NV_MOSAIC_GRID_TOPO_VER, NV_MOSAIC_GRID_TOPO_VER1}]

RECURSIVE Slices(_, _)
Slices(S, n) ==
    IF n = 0 THEN {<<>>}
    ELSE LET shorter == Slices(S, n - 1)
         IN shorter \cup { Append(q, x) : q \in shorter, x \in S }

\* a struct the facade tags itself before the call
Tagged(variant) == Sent(variant, TagOf(variant, ptrBytes))

\* a struct sent with the fields it has
Forwarded(variant, s) == [variant |-> variant] @@ s

(***************************************************************************)
(* GSyncDevice: the single-call operations.                                *)
(***************************************************************************)
\* the driver writes len; handles[..len] panics beyond the array
enum_sync_devices ==
    /\ Idle
    /\ \E st \in Replies(<<>>), len \in 0..(NVAPI_MAX_GSYNC_DEVICES + 1) :
        LET n == IF st = "Ok" THEN len ELSE 0
        IN  /\ calls' = <<Call("NvAPI_GSync_EnumSyncDevices", "enum_sync_devices", "call",
                               <<>>, <<NVAPI_MAX_GSYNC_DEVICES>>, st, <<n>>)>>
            /\ result' = IF status_result(st).kind # "Ok" THEN status_result(st)
                         ELSE IF n > NVAPI_MAX_GSYNC_DEVICES THEN Panic
                         ELSE Ok(<<n>>)
    /\ op' = "enum_sync_devices"
    /\ args' = NoArgs
    /\ bufs' = <<>>
    /\ pc' = "done"
    /\ UNCHANGED <<ptrBytes, rejects, resolver, session_vars, value>>

query_capabilities ==
    /\ Idle
    /\ SingleCall("query_capabilities", NoArgs, "NvAPI_GSync_QueryCapabilities",
                  <<Sent("NV_GSYNC_CAPABILITIES_VER_2", NV_GSYNC_CAPABILITIES_VER)>>,
                  <<>>)

\* the loop that writes the version of the entries whose version is zero
ensure_version(elems, tag) ==
    [i \in 1..Len(elems) |->
        IF elems[i].version = 0 THEN [elems[i] EXCEPT !.version = tag] ELSE elems[i]]

ForwardedAll(variant, elems) == [i \in 1..Len(elems) |-> Forwarded(variant, elems[i])]

\* set_sync_state_settings_raw, entered directly or from one of its two wrappers
set_sync_state_settings_raw_from(name, a, displays) ==
    SingleCall(name, a, "NvAPI_GSync_SetSyncStateSettings",
               ForwardedAll("NV_GSYNC_DISPLAY_VER",
                            ensure_version(displays, NV_GSYNC_DISPLAY_VER)),
               <<>>)

set_sync_state_settings_raw ==
    /\ Idle
    /\ \E displays \in Slices(Displays, MaxLen) :
           set_sync_state_settings_raw_from("set_sync_state_settings_raw",
                                            [displays |-> displays], displays)

\* one zeroed entry per (display_id, state) pair, tagged and filled in
set_sync_state_settings ==
    /\ Idle
    /\ \E displays \in Slices(DisplayId \X DisplaySyncState, MaxLen) :
           set_sync_state_settings_raw_from("set_sync_state_settings",
               [displays |-> displays],
               [i \in 1..Len(displays) |->
                   [version |-> NV_GSYNC_DISPLAY_VER, displayId |-> displays[i][1],
                    isMasterable |-> 0, syncState |-> displays[i][2]]])

\* entries that copy the id and leave the state as zeroed() made it
from_topology_buf_zeroed(displays) ==
    [i \in 1..Len(displays) |->
        [version |-> NV_GSYNC_DISPLAY_VER, displayId |-> displays[i].displayId,
         isMasterable |-> 0, syncState |-> 0]]

\* buf of set_sync_state_settings_from_topology: one zeroed entry per display of the
\* slice, tagged, with its id and state copied
from_topology_buf(displays) ==
    [i \in 1..Len(displays) |->
        [version |-> NV_GSYNC_DISPLAY_VER, displayId |-> displays[i].displayId,
         isMasterable |-> 0, syncState |-> displays[i].syncState]]

set_sync_state_settings_from_topology ==
    /\ Idle
    /\ \E displays \in Slices(TopologyDisplays, MaxLen) :
           set_sync_state_settings_raw_from("set_sync_state_settings_from_topology",
               [displays |-> displays], from_topology_buf(displays))

get_control_parameters ==
    /\ Idle
    /\ SingleCall("get_control_parameters", NoArgs, "NvAPI_GSync_GetControlParameters",
                  <<Tagged("NV_GSYNC_CONTROL_PARAMS_VER")>>, <<>>)

\* a write of the version alone, whatever else params holds
params_after_version_only(params) ==
    [f \in DOMAIN params |-> IF f = "version" THEN NV_GSYNC_CONTROL_PARAMS_VER ELSE 0]

\* *params at the call of set_control_parameters: the version is written if it is 0
params_after(params) == ensure_version(<<params>>, NV_GSYNC_CONTROL_PARAMS_VER)[1]

set_control_parameters ==
    /\ Idle
    /\ \E v \in CallerVersions(NV_GSYNC_CONTROL_PARAMS_VER) :
           LET params == [version |-> v]
           IN SingleCall("set_control_parameters", [params |-> params],
                  "NvAPI_GSync_SetControlParameters",
                  <<Forwarded("NV_GSYNC_CONTROL_PARAMS_VER", params_after(params))>>,
                  <<>>)

adjust_sync_delay ==
    /\ Idle
    /\ \E v \in CallerVersions(NV_GSYNC_DELAY_VER) :
           LET delay == [version |-> v]
           IN SingleCall("adjust_sync_delay", [delay |-> delay],
                  "NvAPI_GSync_AdjustSyncDelay",
                  <<Forwarded("NV_GSYNC_DELAY_VER", delay)>>, <<>>)

get_sync_status ==
    /\ Idle
    /\ SingleCall("get_sync_status", NoArgs, "NvAPI_GSync_GetSyncStatus",
                  <<Tagged("NV_GSYNC_STATUS_VER")>>, <<>>)

get_status_parameters ==
    /\ Idle
    /\ SingleCall("get_status_parameters", NoArgs, "NvAPI_GSync_GetStatusParameters",
                  <<Sent("NV_GSYNC_STATUS_PARAMS_VER_1", NV_GSYNC_STATUS_PARAMS_VER)>>,
                  <<>>)

(***************************************************************************)
(* Mosaic: the single-call operations.                                     *)
(***************************************************************************)
MosaicTopoType == {0, 1}

TopoBriefs == [version : CallerVersions(NVAPI_MOSAIC_TOPO_BRIEF_VER)]

DisplaySettings == [version : CallerVersions(NVAPI_MOSAIC_DISPLAY_SETTING_VER)]

get_supported_topologies ==
    /\ Idle
    /\ \E topo_type \in MosaicTopoType :
           SingleCall("get_supported_topologies", [topo_type |-> topo_type],
                  "NvAPI_Mosaic_GetSupportedTopoInfo",
                  <<Sent("NVAPI_MOSAIC_SUPPORTED_TOPO_INFO_VER2",
                         NVAPI_MOSAIC_SUPPORTED_TOPO_INFO_VER)>>, <<>>)

get_topology_details ==
    /\ Idle
    /\ \E brief \in TopoBriefs :
           SingleCall("get_topology_details", [brief |-> brief],
                  "NvAPI_Mosaic_GetTopoGroup",
                  <<Forwarded("NVAPI_MOSAIC_TOPO_BRIEF_VER", brief),
                    Sent("NVAPI_MOSAIC_TOPO_GROUP_VER", NVAPI_MOSAIC_TOPO_GROUP_VER(ptrBytes))>>,
                  <<>>)

get_current_topology ==
    /\ Idle
    /\ SingleCall("get_current_topology", NoArgs, "NvAPI_Mosaic_GetCurrentTopo",
                  <<Sent("NVAPI_MOSAIC_TOPO_BRIEF_VER", NVAPI_MOSAIC_TOPO_BRIEF_VER),
                    Sent("NVAPI_MOSAIC_DISPLAY_SETTING_VER2", NVAPI_MOSAIC_DISPLAY_SETTING_VER)>>,
                  <<>>)

\* a flag that enables whatever the caller asked for
enable_flag_on(enable) == 1

\* if enable { 1 } else { 0 }
enable_flag(enable) == IF enable THEN 1 ELSE 0

set_current_topology ==
    /\ Idle
    /\ \E brief \in TopoBriefs, settings \in DisplaySettings, enable \in BOOLEAN :
           SingleCall("set_current_topology",
                  [brief |-> brief, settings |-> settings, enable |-> enable],
                  "NvAPI_Mosaic_SetCurrentTopo",
                  <<Forwarded("NVAPI_MOSAIC_TOPO_BRIEF_VER", brief),
                    Forwarded("NVAPI_MOSAIC_DISPLAY_SETTING_VER2", settings)>>, <<>>)

enable_current_topology ==
    /\ Idle
    /\ \E enable \in BOOLEAN :
           SingleCall("enable_current_topology", [enable |-> enable],
                  "NvAPI_Mosaic_EnableCurrentTopo", <<>>, <<>>)

get_overlap_limits ==
    /\ Idle
    /\ \E brief \in TopoBriefs, settings \in DisplaySettings :
           SingleCall("get_overlap_limits", [brief |-> brief, settings |-> settings],
                  "NvAPI_Mosaic_GetOverlapLimits",
                  <<Forwarded("NVAPI_MOSAIC_TOPO_BRIEF_VER", brief),
                    Forwarded("NVAPI_MOSAIC_DISPLAY_SETTING_VER2", settings)>>, <<>>)

set_display_grids ==
    /\ Idle
    /\ \E grids \in Slices(Grids, MaxLen) :
           SingleCall("set_display_grids", [grids |-> grids],
                  "NvAPI_Mosaic_SetDisplayGrids",
                  ForwardedAll("NV_MOSAIC_GRID_TOPO_VER2",
                               ensure_version(grids, NV_MOSAIC_GRID_TOPO_VER)), <<>>)

\* a status array of one element whatever the number of grids
status_vec_single(grids) == with_capacity(1, "NV_MOSAIC_DISPLAY_TOPO_STATUS_VER")

\* the status array: Vec::with_capacity(grids.len()) and one zeroed, tagged status
\* pushed per grid
status_vec_for(grids) == with_capacity(Len(grids), "NV_MOSAIC_DISPLAY_TOPO_STATUS_VER")

\* the grids, then one tagged status per grid; Ok holds the status Vec
validate_display_grids ==
    /\ Idle
    /\ \E grids \in Slices(Grids, MaxLen) :
           LET status_vec == status_vec_for(grids)
           IN SingleCall("validate_display_grids", [grids |-> grids],
                  "NvAPI_Mosaic_ValidateDisplayGrids",
                  ForwardedAll("NV_MOSAIC_GRID_TOPO_VER2",
                               ensure_version(grids, NV_MOSAIC_GRID_TOPO_VER))
                      \o Elements(status_vec), <<status_vec.len>>)

\* enum_display_grids returned Ok with at least one grid and the caller still has it
HasGrids ==
    /\ pc = "done"
    /\ op = "enum_display_grids"
    /\ result.kind = "Ok"
    /\ result.lens[1] > 0

\* the version fields of the grids enum_display_grids returned: the V2 buffer keeps
\* the tag it was sent with, the V1 conversion writes NV_MOSAIC_GRID_TOPO_VER2
enumerated_grids ==
    [k \in 1..result.lens[1] |->
        [version |-> IF calls[Len(calls)].path = "enum_display_grids_v1"
                     THEN NV_MOSAIC_GRID_TOPO_VER2
                     ELSE bufs[1].version]]

\* Mosaic::validate_display_grids(&mut Mosaic::enum_display_grids()?, flags)
validate_enumerated_grids ==
    /\ HasGrids
    /\ LET status_vec == status_vec_for(enumerated_grids)
       IN SingleCall("validate_enumerated_grids", [grids |-> enumerated_grids],
              "NvAPI_Mosaic_ValidateDisplayGrids",
              ForwardedAll("NV_MOSAIC_GRID_TOPO_VER2",
                           ensure_version(enumerated_grids, NV_MOSAIC_GRID_TOPO_VER))
                  \o Elements(status_vec), <<status_vec.len>>)

\* Mosaic::set_display_grids(&mut Mosaic::enum_display_grids()?, flags)
set_enumerated_grids ==
    /\ HasGrids
    /\ SingleCall("set_enumerated_grids", [grids |-> enumerated_grids],
              "NvAPI_Mosaic_SetDisplayGrids",
              ForwardedAll("NV_MOSAIC_GRID_TOPO_VER2",
                           ensure_version(enumerated_grids, NV_MOSAIC_GRID_TOPO_VER)),
              <<>>)

get_display_viewports_by_resolution ==
    /\ Idle
    /\ \E display_id \in DisplayId :
           SingleCall("get_display_viewports_by_resolution", [display_id |-> display_id],
                  "NvAPI_Mosaic_GetDisplayViewportsByResolution", <<>>, <<>>)

(***************************************************************************)
(* nvenum! and nvbits!: the enums and flag types the macros generate.      *)
(***************************************************************************)
\* one declared item of a macro invocation: $symbol / $name = $value
V(name, v) == [name |-> name, value |-> v]

\* the nvenum! invocations of gsync.rs
GSyncEnums ==
    [NVAPI_GSYNC_DISPLAY_SYNC_STATE |->
        <<V("Unsynced", 0), V("Slave", 1), V("Master", 2)>>,
     NVAPI_GSYNC_GPU_TOPOLOGY_CONNECTOR |->
        <<V("None", 0), V("Primary", 1), V("Secondary", 2), V("Tertiary", 3),
          V("Quarternary", 4)>>,
     NVAPI_GSYNC_POLARITY |->
        <<V("RisingEdge", 0), V("FallingEdge", 1), V("BothEdges", 2)>>,
     NVAPI_GSYNC_VIDEO_MODE |->
        <<V("None", 0), V("TTL", 1), V("NtscPalCam", 2), V("Hdtv", 3), V("Composite", 4)>>,
     NVAPI_GSYNC_SYNC_SOURCE |-> <<V("VSync", 0), V("HouseSync", 1)>>,
     NVAPI_GSYNC_DELAY_TYPE |-> <<V("Unknown", 0), V("SyncSkew", 1), V("Startup", 2)>>,
     NVAPI_GSYNC_RJ45_IO |-> <<V("Output", 0), V("Input", 1), V("Unused", 2)>>]

\* the nvenum! invocations of mosaic.rs
MosaicEnums ==
    [NV_MOSAIC_TOPO_TYPE |->
        <<V("All", 0), V("Basic", 1), V("PassiveStereo", 2), V("ScaledClone", 3),
          V("PassiveStereoScaledClone", 4), V("Max", 5)>>,
     NV_MOSAIC_TOPO |->
        <<V("None", 0), V("T1x2_Basic", 1), V("T2x1_Basic", 2), V("T1x3_Basic", 3),
          V("T3x1_Basic", 4), V("T1x4_Basic", 5), V("T4x1_Basic", 6), V("T2x2_Basic", 7),
          V("T2x3_Basic", 8), V("T2x4_Basic", 9), V("T3x2_Basic", 10),
          V("T4x2_Basic", 11), V("T1x5_Basic", 12), V("T1x6_Basic", 13),
          V("T7x1_Basic", 14), V("T1x2_PassiveStereo", 24), V("T2x1_PassiveStereo", 25),
          V("T1x3_PassiveStereo", 26), V("T3x1_PassiveStereo", 27),
          V("T1x4_PassiveStereo", 28), V("T4x1_PassiveStereo", 29),
          V("T2x2_PassiveStereo", 30), V("Max", 35)>>,
     NV_PIXEL_SHIFT_TYPE |->
        <<V("NoPixelShift", 0), V("TwoByTwoTopLeft", 1), V("TwoByTwoBottomRight", 2),
          V("TwoByTwoTopRight", 4), V("TwoByTwoBottomLeft", 8)>>]

\* the nvenum! invocation of dispcontrol.rs
DispcontrolEnums ==
    [NV_ROTATE |-> <<V("R0", 0), V("R90", 1), V("R180", 2), V("R270", 3), V("Ignored", 4)>>]

\* the nvenum! invocations of gpu/thermal.rs
ThermalEnums ==
    [NV_THERMAL_TARGET |->
        <<V("None", 0), V("Gpu", 1), V("Memory", 2), V("PowerSupply", 4), V("Board", 8),
          V("VcdBoard", 9), V("VcdInlet", 10), V("VcdOutlet", 11), V("All", 15),
          V("Unknown", -1)>>,
     NV_THERMAL_CONTROLLER |->
        <<V("None", 0), V("GpuInternal", 1), V("ADM1032", 2), V("MAX6649", 3),
          V("MAX1617", 4), V("LM99", 5), V("LM89", 6), V("LM64", 7), V("ADT7473", 8),
          V("SBMAX6649", 9), V("VBIOSEVT", 10), V("OS", 11), V("Unknown", -1)>>]

\* every enum nvenum! generates, by the name of its C type
Enums == GSyncEnums @@ MosaicEnums @@ DispcontrolEnums @@ ThermalEnums

\* the c_int values a driver may hand back: the declared ones, the gaps between
\* them, and the ends of the type
RawValues == (-2..36) \cup {-2147483647 - 1, 2147483647}

\* the variant names of an enum
Names(decl) == {decl[i].name : i \in DOMAIN decl}

\* whether raw is the value of a declared variant
Declared(decl, r) == \E i \in DOMAIN decl : decl[i].value = r

\* mem::transmute(raw) to the enum: the variant with that discriminant
transmute(decl, r) == decl[CHOOSE i \in DOMAIN decl : decl[i].value = r].name

\* $enum_name::raw: *self as _, the discriminant of the variant
enum_raw(decl, name) == decl[CHOOSE i \in DOMAIN decl : decl[i].name = name].value

\* the results of from_raw and of Iterator::next
Variant(kind, name) == [kind |-> kind, variant |-> name]

\* a from_raw that takes every value from the first declared one to the last
from_raw_in_range(decl, r) ==
    IF \E i, j \in DOMAIN decl : decl[i].value <= r /\ r <= decl[j].value
    THEN Variant("Ok", IF Declared(decl, r) THEN transmute(decl, r) ELSE "undeclared")
    ELSE Variant("Err", "ArgumentRangeError")

\* $enum_name::from_raw: match raw { $symbol | ... => Ok(transmute(raw)), _ => Err }
from_raw(decl, r) ==
    IF Declared(decl, r) THEN Variant("Ok", transmute(decl, r))
    ELSE Variant("Err", "ArgumentRangeError")

\* a & b on the bits of two flag values
RECURSIVE BitAnd(_, _)
BitAnd(a, b) ==
    IF a = 0 \/ b = 0 THEN 0
    ELSE (IF a % 2 = 1 /\ b % 2 = 1 THEN 1 ELSE 0) + 2 * BitAnd(a \div 2, b \div 2)

\* flag types as nvbits! may be invoked: single bits, a flag of value 0, and flags
\* that share bits, declared before or after the bits they are made of
FlagTypes ==
    [Bits |-> <<V("A", 1), V("B", 2), V("C", 4)>>,
     WithNone |-> <<V("NONE", 0), V("A", 1), V("B", 2)>>,
     Combined |-> <<V("A", 1), V("B", 2), V("AB", 3)>>,
     CombinedFirst |-> <<V("AB", 3), V("A", 1), V("B", 2)>>]

\* the values of a flag type: any union of its declared flags
RECURSIVE AllBits(_)
AllBits(decl) ==
    IF decl = <<>> THEN 0 ELSE BitOr(Head(decl).value, AllBits(Tail(decl)))

FlagValues(decl) == {b \in 0..AllBits(decl) : BitAnd(b, AllBits(decl)) = b}

\* bitflags contains and remove
contains(self, flag) == BitAnd(self, flag) = flag
remove(self, flag) == self - BitAnd(self, flag)

\* how many calls of next() one iteration is followed for
MaxNext == 4

\* nothing was done with a value yet
NoValue ==
    [op |-> "none", type |-> "none", raw |-> 0, variant |-> "none",
     out |-> Variant("none", "none"), start |-> 0, self |-> 0, yielded |-> <<>>,
     grids_v1 |-> <<>>, grids_v2 |-> <<>>]

(***************************************************************************)
(* The V1 grids enum_display_grids_v1 reads, and their conversion to V2.   *)
(***************************************************************************)
\* NV_MOSAIC_GRID_TOPO_DISPLAY_V1 as zeroed() leaves it
UnusedDisplay ==
    [displayId |-> 0, overlapX |-> 0, overlapY |-> 0, rotation |-> 0, cloneGroup |-> 0]

\* display entries as a driver fills them
GridDisplaysV1 ==
    {UnusedDisplay,
     [displayId |-> 7, overlapX |-> 8, overlapY |-> 4, rotation |-> 1, cloneGroup |-> 2],
     [displayId |-> 9, overlapX |-> -16, overlapY |-> -2, rotation |-> 3, cloneGroup |-> 1]}

\* the displays array of a grid: its first and its last slot vary
GridDisplayArraysV1 ==
    {[i \in 0..(NV_MOSAIC_MAX_DISPLAYS - 1) |->
          IF i = 0 THEN first
          ELSE IF i = NV_MOSAIC_MAX_DISPLAYS - 1 THEN last ELSE UnusedDisplay] :
     first \in GridDisplaysV1, last \in GridDisplaysV1}

\* the other fields of a grid the driver filled
GridShapes ==
    {[rows |-> 1, columns |-> 2, displayCount |-> 2, gridFlags |-> 0,
      displaySettings |-> [version |-> NVAPI_MOSAIC_DISPLAY_SETTING_VER1, width |-> 1920]],
     [rows |-> 2, columns |-> 1, displayCount |-> 1, gridFlags |-> 5,
      displaySettings |-> [version |-> NVAPI_MOSAIC_DISPLAY_SETTING_VER1, width |-> 3840]]}

\* NV_MOSAIC_GRID_TOPO_V1 as read back from the driver
GridsV1 ==
    {[version |-> NV_MOSAIC_GRID_TOPO_VER1, rows |-> g.rows, columns |-> g.columns,
      displayCount |-> g.displayCount, gridFlags |-> g.gridFlags, displays |-> d,
      displaySettings |-> g.displaySettings] : g \in GridShapes, d \in GridDisplayArraysV1}

\* the body of the loop over the display slots
disp_v2(grid_v1, i) ==
    [version |-> 2,
     displayId |-> grid_v1.displays[i].displayId,
     overlapX |-> grid_v1.displays[i].overlapX,
     overlapY |-> grid_v1.displays[i].overlapY,
     rotation |-> grid_v1.displays[i].rotation,
     cloneGroup |-> grid_v1.displays[i].cloneGroup,
     pixelShiftType |-> enum_raw(Enums["NV_PIXEL_SHIFT_TYPE"], "NoPixelShift")]

\* NV_MOSAIC_GRID_TOPO_DISPLAY_V2::zeroed()
disp_v2_zeroed ==
    [version |-> 0, displayId |-> 0, overlapX |-> 0, overlapY |-> 0, rotation |-> 0,
     cloneGroup |-> 0, pixelShiftType |-> 0]

\* a conversion that stops after the displays the grid counts as active
grid_v2_active_only(grid_v1) ==
    [version |-> NV_MOSAIC_GRID_TOPO_VER2,
     rows |-> grid_v1.rows,
     columns |-> grid_v1.columns,
     displayCount |-> grid_v1.displayCount,
     gridFlags |-> grid_v1.gridFlags,
     displaySettings |-> grid_v1.displaySettings,
     displays |-> [i \in 0..(NV_MOSAIC_MAX_DISPLAYS - 1) |->
                      IF i < grid_v1.displayCount THEN disp_v2(grid_v1, i)
                      ELSE disp_v2_zeroed]]

\* the body of the loop over grids_v1: one V2 grid from one V1 grid
grid_v2(grid_v1) ==
    [version |-> NV_MOSAIC_GRID_TOPO_VER2,
     rows |-> grid_v1.rows,
     columns |-> grid_v1.columns,
     displayCount |-> grid_v1.displayCount,
     gridFlags |-> grid_v1.gridFlags,
     displaySettings |-> grid_v1.displaySettings,
     displays |-> [i \in 0..(NV_MOSAIC_MAX_DISPLAYS - 1) |-> disp_v2(grid_v1, i)]]

\* the Vec enum_display_grids_v1 returns: one push per grid read, in order
grids_v2(grids_v1) == [k \in 1..Len(grids_v1) |-> grid_v2(grids_v1[k])]

(***************************************************************************)
(* The device behind the driver, and the caller of a session.              *)
(***************************************************************************)
\* the fields of NV_GSYNC_CONTROL_PARAMS a caller reads and writes: a polarity and
\* one value b in all the others
Control(p, b) ==
    [polarity |-> p, vmode |-> b, interval |-> b, source |-> b, interlaceMode |-> b,
     syncSourceIsOutput |-> b]

\* a Mosaic topology as set_current_topology sets it and get_current_topology
\* reports it: the topo of the brief, the width of the display settings, the overlaps
Configs ==
    {[topo |-> 1, width |-> 1920, overlap |-> <<0, 0>>],
     [topo |-> 2, width |-> 3840, overlap |-> <<8, 4>>]}

\* no current topology: pTopoBrief->topo is NV_MOSAIC_TOPO_NONE
NoConfig == [topo |-> 0, width |-> 0, overlap |-> <<0, 0>>]

\* the device as the driver has it: the control parameters, the sync state of each
\* display (0 is unsynced), the Mosaic topology: not set, set, set and enabled, and
\* the topology that was set
Devices ==
    [control : {Control(1, 0), Control(2, 1)},
     sync : [DisplayId -> {0} \cup DisplaySyncState],
     topo : {"none", "disabled", "enabled"},
     config : Configs \cup {NoConfig}]

NoCall == [op |-> "none", status |-> "None", sent |-> <<>>, value |-> <<>>, stale |-> FALSE]

\* a caller that has called nothing yet: it holds no GSyncDevice, and no topology
\* was disabled and enabled again under its eyes
NoSession ==
    [last |-> NoCall, queried |-> FALSE, configured |-> FALSE, held |-> "none",
     cycle |-> "none", kept |-> NoConfig]

\* the device while nobody uses it
Unused ==
    [control |-> Control(1, 0), sync |-> [id \in DisplayId |-> 0], topo |-> "none",
     config |-> NoConfig]

\* the devices a session starts on: no Mosaic topology was set yet
Installed ==
    {d \in Devices :
        /\ d.topo = "none"
        /\ d.config = NoConfig
        /\ \/ d = Unused
           \/ d.control = Control(2, 1) /\ d.sync = [id \in DisplayId |-> id]}

\* what NvAPI_Mosaic_GetCurrentTopo writes for the topology config: the brief, the
\* display settings, the overlaps
CurrentTopo(config) ==
    <<[version |-> NVAPI_MOSAIC_TOPO_BRIEF_VER, topo |-> config.topo],
      [version |-> NVAPI_MOSAIC_DISPLAY_SETTING_VER, width |-> config.width],
      config.overlap>>

\* NvAPI_Mosaic_GetCurrentTopo: information for the current topology, topo NONE if
\* there is none
NvAPI_Mosaic_GetCurrentTopo(dev) == CurrentTopo(dev.config)

\* NvAPI_Mosaic_SetCurrentTopo: sets the current topology and the overlaps, and
\* optionally enables it
NvAPI_Mosaic_SetCurrentTopo(dev, config, enable) ==
    [dev EXCEPT !.config = config,
                !.topo = IF enable = 1 THEN "enabled" ELSE "disabled"]

\* a driver that forgets the topology it disables
NvAPI_Mosaic_EnableCurrentTopo_discards(dev, enable) ==
    IF enable = 1 THEN [dev EXCEPT !.topo = "enabled"]
    ELSE [dev EXCEPT !.topo = "disabled", !.config = NoConfig]

\* NvAPI_Mosaic_EnableCurrentTopo: enables or disables the previously set topology;
\* disable keeps the topology info for a later enable
NvAPI_Mosaic_EnableCurrentTopo(dev, enable) ==
    [dev EXCEPT !.topo = IF enable = 1 THEN "enabled" ELSE "disabled"]

(***************************************************************************)
(* nvapi_fn!: a bound function resolves its entry point by interface ID on *)
(* every call, through a CACHE slot of its own, and calls through the      *)
(* pointer it gets.                                                        *)
(***************************************************************************)
MaxCalls == 2

\* the threads of the process that use the bindings
Threads == {"main", "worker"}

\* two of the bound functions
Wrappers == {"NvAPI_GSync_GetSyncStatus", "NvAPI_Mosaic_EnableCurrentTopo"}

\* the address of a function inside the driver; no function lives at null
EntryPoint(fn) ==
    CASE fn = "NvAPI_GSync_GetSyncStatus" -> 1
      [] fn = "NvAPI_Mosaic_EnableCurrentTopo" -> 2

\* the closed table of status codes with a named error
KnownCodes ==
    [NotSupported |-> -3, InvalidArgument |-> -5, DeviceNotFound |-> -6,
     IncompatibleStructVersion |-> -9, HandleInvalidated |-> -10,
     InsufficientBuffer |-> -55]

\* what a bound function may return: success, the codes of the table, and codes
\* outside it up to both ends of i32
StatusCodes ==
    {0, 1, -1, -2147483647 - 1, 2147483647} \cup {KnownCodes[n] : n \in DOMAIN KnownCodes}

\* a translation that has one error for all codes outside the table
ErrorKind_generic(code) ==
    IF \E n \in DOMAIN KnownCodes : KnownCodes[n] = code
    THEN [name |-> CHOOSE n \in DOMAIN KnownCodes : KnownCodes[n] = code, code |-> 0]
    ELSE [name |-> "Unknown", code |-> -1]

\* the error of a status code: its named variant, Unknown(code) outside the table
ErrorKind(code) ==
    IF \E n \in DOMAIN KnownCodes : KnownCodes[n] = code
    THEN [name |-> CHOOSE n \in DOMAIN KnownCodes : KnownCodes[n] = code, code |-> 0]
    ELSE [name |-> "Unknown", code |-> code]

\* Status::raw: the status code of an error
raw(e) == IF e.name = "Unknown" THEN e.code ELSE KnownCodes[e.name]

\* status_result on the raw code a bound function returned
translate(code) == IF code = 0 THEN Ok(<<>>) ELSE Err(ErrorKind(code))

\* the driver's query-interface entry point: the function of a known ID, else null
nvapi_QueryInterface(fn) == IF fn \in exports THEN EntryPoint(fn) ELSE 0

\* a thread outside every wrapper, after `made` calls
Resting(made) ==
    [pc |-> "idle", fn |-> "none", cached |-> FALSE, asked |-> FALSE, ptr |-> 0,
     res |-> NoResult, ret |-> 0, result |-> NoResult, made |-> made]

\* a slot that starts out with something in it
CACHE_stale == [fn \in Wrappers |-> 3]

\* static CACHE: AtomicUsize = AtomicUsize::new(0), one slot inside each wrapper
CACHE_new == [fn \in Wrappers |-> 0]

At(t, where) == thread[t].pc = where

\* thread t goes on with the locals `locals`
Goto(t, locals) == thread' = [thread EXCEPT ![t] = locals]

\* a thread enters a wrapper: query_interface(Api::$fn.id(), &CACHE)
wrapper_call ==
    \E t \in Threads, fn \in Wrappers :
        /\ At(t, "idle")
        /\ thread[t].made < MaxCalls
        /\ Goto(t, [thread[t] EXCEPT !.pc = "load", !.fn = fn,
                                     !.cached = CACHE[fn] # 0, !.made = @ + 1])
        /\ UNCHANGED <<facade, exports, CACHE, invoked, session_vars, value>>

\* query_interface reads the slot: a pointer in it is the answer
cache_load ==
    \E t \in Threads :
        /\ At(t, "load")
        /\ IF CACHE[thread[t].fn] # 0
           THEN Goto(t, [thread[t] EXCEPT !.pc = "resolved", !.res = Ok(<<>>),
                                          !.ptr = CACHE[thread[t].fn]])
           ELSE Goto(t, [thread[t] EXCEPT !.pc = "query"])
        /\ UNCHANGED <<facade, exports, CACHE, invoked, session_vars, value>>

\* on an empty slot query_interface asks the driver; an ID the driver does not know
\* is the error of NVAPI_NO_IMPLEMENTATION
cache_miss ==
    \E t \in Threads :
        /\ At(t, "query")
        /\ LET p == nvapi_QueryInterface(thread[t].fn) IN
            IF p # 0
            THEN Goto(t, [thread[t] EXCEPT !.pc = "store", !.asked = TRUE, !.ptr = p])
            ELSE Goto(t, [thread[t] EXCEPT !.pc = "resolved", !.asked = TRUE,
                                           !.res = Err(ErrorKind(KnownCodes.NotSupported))])
        /\ UNCHANGED <<facade, exports, CACHE, invoked, session_vars, value>>

\* query_interface keeps the pointer the driver gave in the slot
cache_store ==
    \E t \in Threads :
        /\ At(t, "store")
        /\ CACHE' = [CACHE EXCEPT ![thread[t].fn] = thread[t].ptr]
        /\ Goto(t, [thread[t] EXCEPT !.pc = "resolved", !.res = Ok(<<>>)])
        /\ UNCHANGED <<facade, exports, invoked, session_vars, value>>

\* the match of nvapi_fn! that calls through any resolution
calls_through_any(r) == TRUE

\* the match of nvapi_fn!: only Ok(ptr) is transmuted and called
calls_through(r) == r.kind = "Ok"

\* Ok(ptr) => the bound function runs and returns its status
wrapper_invoke ==
    \E t \in Threads :
        /\ At(t, "resolved")
        /\ calls_through(thread[t].res)
        /\ invoked' = invoked \cup {<<thread[t].fn, thread[t].ptr>>}
        /\ \E code \in StatusCodes :
            Goto(t, [thread[t] EXCEPT !.pc = "returned", !.ret = code,
                                      !.result = translate(code)])
        /\ UNCHANGED <<facade, exports, CACHE, session_vars, value>>

\* Err(e) => e.raw()
wrapper_fail ==
    \E t \in Threads :
        /\ At(t, "resolved")
        /\ ~calls_through(thread[t].res)
        /\ Goto(t, [thread[t] EXCEPT !.pc = "returned", !.ret = raw(thread[t].res.err),
                                     !.result = translate(raw(thread[t].res.err))])
        /\ UNCHANGED <<facade, exports, CACHE, invoked, session_vars, value>>

\* a slot that lives as long as one call only
wrapper_returned_forgets ==
    \E t \in Threads :
        /\ At(t, "returned")
        /\ Goto(t, Resting(thread[t].made))
        /\ CACHE' = CACHE_new
        /\ UNCHANGED <<facade, exports, invoked, session_vars, value>>

\* the caller takes the result of the call
wrapper_returned ==
    \E t \in Threads :
        /\ At(t, "returned")
        /\ Goto(t, Resting(thread[t].made))
        /\ UNCHANGED <<facade, exports, CACHE, invoked, session_vars, value>>

\* a process whose threads use two bound functions of a driver that knows some of
\* the interface IDs
ResolverInit ==
    /\ ptrBytes = 8
    /\ rejects = {}
    /\ op = "none"
    /\ pc = "idle"
    /\ args = NoArgs
    /\ calls = <<>>
    /\ bufs = <<>>
    /\ result = NoResult
    /\ exports \in SUBSET Wrappers
    /\ CACHE = CACHE_new
    /\ thread = [t \in Threads |-> Resting(0)]
    /\ invoked = {}
    /\ device = Unused
    /\ session = NoSession
    /\ value = NoValue

ResolverNext ==
    \/ wrapper_call
    \/ cache_load
    \/ cache_miss
    \/ cache_store
    \/ wrapper_invoke
    \/ wrapper_fail
    \/ wrapper_returned

ResolverSpec == ResolverInit /\ [][ResolverNext]_vars

(***************************************************************************)
(* A session: a caller that hands back to the facade what the facade gave   *)
(* it, as examples/gsync-resync.rs does, and a driver that keeps the state *)
(* of the device between the calls.                                        *)
(***************************************************************************)
\* the caller made the call `call`; the driver is left with the device dev.  The
\* caller holds the GSyncDevice of its last enumeration, which a mode-set makes
\* stale; kept is the topology that was current when the caller disabled it, cycle
\* says whether it was enabled again since
Called(call, dev) ==
    LET ok == call.status = "Ok"
        sets == call.op = "set_current_topology" /\ ok
        disables == /\ call.op = "enable_current_topology" /\ ok
                    /\ call.value = <<FALSE>> /\ device.topo = "enabled"
        enables == /\ call.op = "enable_current_topology" /\ ok
                   /\ call.value = <<TRUE>> /\ session.cycle = "off"
    IN
    /\ session' =
         [last |-> call,
          queried |-> IF call.op = "mode_set" THEN FALSE
                      ELSE session.queried
                           \/ (call.op \in {"get_current_topology", "query_capabilities"}
                               /\ ok),
          configured |-> session.configured \/ sets,
          held |-> IF call.op = "enum_sync_devices" /\ ok THEN "fresh"
                   ELSE IF call.op = "mode_set" /\ session.held # "none" THEN "stale"
                   ELSE session.held,
          cycle |-> IF sets THEN "none" ELSE IF disables THEN "off"
                    ELSE IF enables THEN "on" ELSE session.cycle,
          kept |-> IF sets THEN NoConfig ELSE IF disables THEN device.config
                   ELSE session.kept]
    /\ device' = dev
    /\ UNCHANGED <<facade, resolver, value>>

\* the value inside an Ok, nothing on an error
Value(st, v) == IF status_result(st).kind = "Ok" THEN v ELSE <<>>

\* a call on the GSyncDevice the caller holds passes self.handle, fresh or not
HasDevice == session.held # "none"
HandleIsStale == session.held = "stale"

\* a display mode-set: the handles enumerated before it are invalidated
mode_set ==
    /\ Idle
    /\ Called([op |-> "mode_set", status |-> "Ok", sent |-> <<>>, value |-> <<>>,
               stale |-> FALSE], device)

\* let devices = GSyncDevice::enum_sync_devices()?: the caller keeps the device
session_enum_sync_devices ==
    /\ Idle
    /\ \E st \in Replies(<<>>) :
           Called([op |-> "enum_sync_devices", status |-> st, sent |-> <<>>,
                   value |-> <<>>, stale |-> FALSE], device)

\* a query of the driver: the structs sent, a status, and the device as it was
session_query(name, sent, stale) ==
    \E st \in Replies(sent) :
        Called([op |-> name, status |-> st, sent |-> sent, value |-> <<>>,
                stale |-> stale], device)

\* dev.query_capabilities()
session_query_capabilities ==
    /\ Idle
    /\ HasDevice
    /\ session_query("query_capabilities",
                     <<Sent("NV_GSYNC_CAPABILITIES_VER_2", NV_GSYNC_CAPABILITIES_VER)>>,
                     HandleIsStale)

\* dev.get_sync_status(&gpu)
session_get_sync_status ==
    /\ Idle
    /\ HasDevice
    /\ session_query("get_sync_status",
                     <<Sent("NV_GSYNC_STATUS_VER", NV_GSYNC_STATUS_VER)>>, HandleIsStale)

\* dev.get_status_parameters()
session_get_status_parameters ==
    /\ Idle
    /\ HasDevice
    /\ session_query("get_status_parameters",
                     <<Sent("NV_GSYNC_STATUS_PARAMS_VER_2", NV_GSYNC_STATUS_PARAMS_VER)>>,
                     HandleIsStale)

\* Mosaic::get_supported_topologies(topo_type)
session_get_supported_topologies ==
    /\ Idle
    /\ session_query("get_supported_topologies",
                     <<Sent("NVAPI_MOSAIC_SUPPORTED_TOPO_INFO_VER2",
                            NVAPI_MOSAIC_SUPPORTED_TOPO_INFO_VER)>>, FALSE)

\* Mosaic::get_topology_details(brief)
session_get_topology_details ==
    /\ Idle
    /\ session_query("get_topology_details",
                     <<Sent("NVAPI_MOSAIC_TOPO_BRIEF_VER", NVAPI_MOSAIC_TOPO_BRIEF_VER),
                       Sent("NVAPI_MOSAIC_TOPO_GROUP_VER",
                            NVAPI_MOSAIC_TOPO_GROUP_VER(ptrBytes))>>, FALSE)

\* Mosaic::get_overlap_limits(brief, settings)
session_get_overlap_limits ==
    /\ Idle
    /\ session_query("get_overlap_limits",
                     <<Sent("NVAPI_MOSAIC_TOPO_BRIEF_VER", NVAPI_MOSAIC_TOPO_BRIEF_VER),
                       Sent("NVAPI_MOSAIC_DISPLAY_SETTING_VER2",
                            NVAPI_MOSAIC_DISPLAY_SETTING_VER)>>, FALSE)

\* Mosaic::enum_display_grids(), as far as the device goes: the count call
session_enum_display_grids ==
    /\ Idle
    /\ session_query("enum_display_grids", <<>>, FALSE)

\* Mosaic::validate_display_grids(&mut grids, flags) with one tagged grid: the
\* driver checks the grid and applies nothing
session_validate_display_grids ==
    /\ Idle
    /\ session_query("validate_display_grids",
                     <<Sent("NV_MOSAIC_GRID_TOPO_VER2", NV_MOSAIC_GRID_TOPO_VER),
                       Sent("NV_MOSAIC_DISPLAY_TOPO_STATUS_VER",
                            NV_MOSAIC_DISPLAY_TOPO_STATUS_VER)>>, FALSE)

\* Mosaic::get_display_viewports_by_resolution(display_id, w, h)
session_get_display_viewports_by_resolution ==
    /\ Idle
    /\ session_query("get_display_viewports_by_resolution", <<>>, FALSE)

\* let mut ctrl = dev.get_control_parameters()?: the tagged struct, filled by the driver
session_get_control_parameters ==
    /\ Idle
    /\ HasDevice
    /\ \E st \in Replies(<<Tagged("NV_GSYNC_CONTROL_PARAMS_VER")>>) :
           Called([op |-> "get_control_parameters", status |-> st,
                   sent |-> <<Tagged("NV_GSYNC_CONTROL_PARAMS_VER")>>,
                   value |-> Value(st, <<[version |-> NV_GSYNC_CONTROL_PARAMS_VER]
                                          @@ device.control>>),
                   stale |-> HandleIsStale],
                  device)

\* dev.set_control_parameters(&mut ctrl)? with the ctrl just read; the driver takes
\* over the fields of a struct it accepts, and Ok holds *params
session_set_control_parameters ==
    /\ Idle
    /\ HasDevice
    /\ session.last.op = "get_control_parameters"
    /\ session.last.status = "Ok"
    /\ LET after == params_after(session.last.value[1])
           sent == <<Forwarded("NV_GSYNC_CONTROL_PARAMS_VER", after)>>
       IN \E st \in Replies(sent) :
           Called([op |-> "set_control_parameters", status |-> st, sent |-> sent,
                   value |-> Value(st, <<after>>), stale |-> HandleIsStale],
                  IF st = "Ok"
                  THEN [device EXCEPT !.control =
                           [f \in DOMAIN device.control |-> sent[1][f]]]
                  ELSE device)

\* let (_gpus, displays) = dev.get_topology()?: the displays of the device
session_get_topology ==
    /\ Idle
    /\ HasDevice
    /\ LET displays == [id \in DisplayId |->
                           [version |-> NV_GSYNC_DISPLAY_VER, displayId |-> id,
                            isMasterable |-> isMasterable(id),
                            syncState |-> device.sync[id]]]
       IN \E st \in Replies(<<>>) :
           Called([op |-> "get_topology", status |-> st, sent |-> <<>>,
                   value |-> Value(st, displays), stale |-> HandleIsStale],
                  device)

\* the sync state the driver has for a display after it took the entries `sent`:
\* that of the last entry for the display, the old one if there is none
SyncAfter(sent, id) ==
    LET entries == {i \in 1..Len(sent) : sent[i].displayId = id}
    IN  IF entries = {} THEN device.sync[id]
        ELSE sent[CHOOSE i \in entries : \A j \in entries : j <= i].syncState

\* dev.set_sync_state_settings_from_topology(&displays, 0)? with the displays just read
session_set_sync_state_settings_from_topology ==
    /\ Idle
    /\ HasDevice
    /\ session.last.op = "get_topology"
    /\ session.last.status = "Ok"
    /\ LET sent == ForwardedAll("NV_GSYNC_DISPLAY_VER",
                       ensure_version(from_topology_buf(session.last.value),
                                      NV_GSYNC_DISPLAY_VER))
       IN \E st \in Replies(sent) :
           Called([op |-> "set_sync_state_settings_from_topology", status |-> st,
                   sent |-> sent, value |-> <<>>, stale |-> HandleIsStale],
                  IF st = "Ok"
                  THEN [device EXCEPT !.sync = [id \in DisplayId |-> SyncAfter(sent, id)]]
                  ELSE device)

\* a query that leaves the device without its topology
session_get_current_topology_resets ==
    /\ Idle
    /\ LET sent == <<Sent("NVAPI_MOSAIC_TOPO_BRIEF_VER", NVAPI_MOSAIC_TOPO_BRIEF_VER),
                     Sent("NVAPI_MOSAIC_DISPLAY_SETTING_VER2", NVAPI_MOSAIC_DISPLAY_SETTING_VER)>>
       IN \E st \in Replies(sent) :
           Called([op |-> "get_current_topology", status |-> st, sent |-> sent,
                   value |-> Value(st, NvAPI_Mosaic_GetCurrentTopo(device)),
                   stale |-> FALSE],
                  [device EXCEPT !.topo = "none", !.config = NoConfig])

\* Mosaic::get_current_topology(): a query, the device stays as it is; Ok holds the
\* brief, the settings and the overlaps the driver wrote
session_get_current_topology ==
    /\ Idle
    /\ LET sent == <<Sent("NVAPI_MOSAIC_TOPO_BRIEF_VER", NVAPI_MOSAIC_TOPO_BRIEF_VER),
                     Sent("NVAPI_MOSAIC_DISPLAY_SETTING_VER2", NVAPI_MOSAIC_DISPLAY_SETTING_VER)>>
       IN \E st \in Replies(sent) :
           Called([op |-> "get_current_topology", status |-> st, sent |-> sent,
                   value |-> Value(st, NvAPI_Mosaic_GetCurrentTopo(device)),
                   stale |-> FALSE],
                  device)

\* Mosaic::set_current_topology(brief, settings, overlap_x, overlap_y, enable) with a
\* brief and settings that carry their version: the driver sets the topology and
\* enables it if the flag says so
session_set_current_topology ==
    /\ Idle
    /\ \E config \in Configs, enable \in BOOLEAN :
        LET sent == <<Forwarded("NVAPI_MOSAIC_TOPO_BRIEF_VER", CurrentTopo(config)[1]),
                      Forwarded("NVAPI_MOSAIC_DISPLAY_SETTING_VER2", CurrentTopo(config)[2])>>
        IN \E st \in Replies(sent) :
           Called([op |-> "set_current_topology", status |-> st, sent |-> sent,
                   value |-> <<enable>>, stale |-> FALSE],
                  IF st = "Ok"
                  THEN NvAPI_Mosaic_SetCurrentTopo(device, config, enable_flag(enable))
                  ELSE device)

\* Mosaic::enable_current_topology(enable): the driver enables or disables the
\* topology that was set before, keeps it when it disables, and has nothing to
\* enable or disable when none was set
session_enable_current_topology ==
    /\ Idle
    /\ \E enable \in BOOLEAN :
           \E st \in Replies(<<>>) \ (IF device.topo = "none" THEN {"Ok"} ELSE {}) :
               Called([op |-> "enable_current_topology", status |-> st, sent |-> <<>>,
                       value |-> <<enable>>, stale |-> FALSE],
                      IF st = "Ok"
                      THEN NvAPI_Mosaic_EnableCurrentTopo(device, enable_flag(enable))
                      ELSE device)

\* a device on which no Mosaic topology was set yet, and a caller that starts
SessionInit ==
    /\ ptrBytes = 8
    /\ rejects = {}
    /\ op = "none"
    /\ pc = "idle"
    /\ args = NoArgs
    /\ calls = <<>>
    /\ bufs = <<>>
    /\ result = NoResult
    /\ exports = Wrappers
    /\ CACHE = CACHE_new
    /\ thread = [t \in Threads |-> Resting(0)]
    /\ invoked = {}
    /\ device \in Installed
    /\ session = NoSession
    /\ value = NoValue

SessionNext ==
    \/ mode_set
    \/ session_enum_sync_devices
    \/ session_query_capabilities
    \/ session_get_sync_status
    \/ session_get_status_parameters
    \/ session_get_control_parameters
    \/ session_set_control_parameters
    \/ session_get_topology
    \/ session_set_sync_state_settings_from_topology
    \/ session_get_supported_topologies
    \/ session_get_topology_details
    \/ session_get_overlap_limits
    \/ session_enum_display_grids
    \/ session_validate_display_grids
    \/ session_get_display_viewports_by_resolution
    \/ session_get_current_topology
    \/ session_set_current_topology
    \/ session_enable_current_topology

SessionSpec == SessionInit /\ [][SessionNext]_vars

(***************************************************************************)
(* Values of the generated types: raw integers the driver hands back are   *)
(* converted with from_raw, variants are converted back, and a flag value  *)
(* is iterated with next().                                                *)
(***************************************************************************)
Fresh == value.op = "none"

\* $enum_name::from_raw(raw) on a value the driver wrote
on_from_raw ==
    /\ Fresh
    /\ \E e \in DOMAIN Enums, r \in RawValues :
           value' = [NoValue EXCEPT !.op = "from_raw", !.type = e, !.raw = r,
                                    !.out = from_raw(Enums[e], r)]
    /\ UNCHANGED <<facade, resolver, session_vars>>

\* $enum_name::from_raw(v.raw()) for a variant v, as values() hands them out
on_round_trip ==
    /\ Fresh
    /\ \E e \in DOMAIN Enums :
        \E name \in Names(Enums[e]) :
           value' = [NoValue EXCEPT !.op = "round_trip", !.type = e, !.variant = name,
                                    !.raw = enum_raw(Enums[e], name),
                                    !.out = from_raw(Enums[e], enum_raw(Enums[e], name))]
    /\ UNCHANGED <<facade, resolver, session_vars>>

\* let mut flags = ...: a value of a flag type, about to be iterated
on_flags ==
    /\ Fresh
    /\ \E t \in DOMAIN FlagTypes :
        \E b \in FlagValues(FlagTypes[t]) :
           value' = [NoValue EXCEPT !.op = "flags", !.type = t, !.start = b, !.self = b]
    /\ UNCHANGED <<facade, resolver, session_vars>>

\* Iterator::next: the first declared flag self contains is removed and returned,
\* None if self contains none
next ==
    /\ value.op \in {"flags", "next"}
    /\ value.out.kind # "None"
    /\ Len(value.yielded) < MaxNext
    /\ LET decl == FlagTypes[value.type]
           hits == {i \in DOMAIN decl : contains(value.self, decl[i].value)}
       IN  IF hits = {}
           THEN value' = [value EXCEPT !.op = "next", !.out = Variant("None", "none")]
           ELSE LET i == CHOOSE h \in hits : \A j \in hits : h <= j
                IN  value' = [value EXCEPT !.op = "next",
                                           !.self = remove(@, decl[i].value),
                                           !.yielded = Append(@, decl[i].name),
                                           !.out = Variant("Some", decl[i].name)]
    /\ UNCHANGED <<facade, resolver, session_vars>>

\* enum_display_grids_v1 after its fill call: grids_v1 holds what was read, and
\* the converted Vec is returned
on_grids_v1 ==
    /\ Fresh
    /\ \E grids_v1 \in Slices(GridsV1, MaxLen) :
           value' = [NoValue EXCEPT !.op = "grids_v2", !.grids_v1 = grids_v1,
                                    !.grids_v2 = grids_v2(grids_v1)]
    /\ UNCHANGED <<facade, resolver, session_vars>>

\* the value goes out of scope
dropped ==
    /\ ~Fresh
    /\ value' = NoValue
    /\ UNCHANGED <<facade, resolver, session_vars>>

ValueInit ==
    /\ ptrBytes = 8
    /\ rejects = {}
    /\ op = "none"
    /\ pc = "idle"
    /\ args = NoArgs
    /\ calls = <<>>
    /\ bufs = <<>>
    /\ result = NoResult
    /\ exports = Wrappers
    /\ CACHE = CACHE_new
    /\ thread = [t \in Threads |-> Resting(0)]
    /\ invoked = {}
    /\ device = Unused
    /\ session = NoSession
    /\ value = NoValue

ValueNext ==
    \/ on_from_raw
    \/ on_round_trip
    \/ on_flags
    \/ on_grids_v1
    \/ next
    \/ dropped

ValueSpec == ValueInit /\ [][ValueNext]_vars

(***************************************************************************)
(* The system: a build target, an installed driver, and a caller that runs *)
(* one facade operation after the other.                                   *)
(***************************************************************************)
Init ==
    /\ ptrBytes \in {4, 8}
    /\ rejects \in SUBSET RejectableTags
    /\ op = "none"
    /\ pc = "idle"
    /\ args = NoArgs
    /\ calls = <<>>
    /\ bufs = <<>>
    /\ result = NoResult
    /\ exports = Wrappers
    /\ CACHE = CACHE_new
    /\ thread = [t \in Threads |-> Resting(0)]
    /\ invoked = {}
    /\ device = Unused
    /\ session = NoSession
    /\ value = NoValue

\* the caller takes the result; the facade keeps nothing from one operation to the next
returned ==
    /\ pc = "done"
    /\ pc' = "idle"
    /\ op' = "none"
    /\ args' = NoArgs
    /\ calls' = <<>>
    /\ bufs' = <<>>
    /\ result' = NoResult
    /\ UNCHANGED <<ptrBytes, rejects, resolver, session_vars, value>>

Next ==
    \/ enum_sync_devices
    \/ query_capabilities
    \/ get_topology
    \/ get_topology_fill
    \/ get_physical_gpus
    \/ set_sync_state_settings_raw
    \/ set_sync_state_settings
    \/ set_sync_state_settings_from_topology
    \/ get_control_parameters
    \/ set_control_parameters
    \/ adjust_sync_delay
    \/ get_sync_status
    \/ get_status_parameters
    \/ get_supported_topologies
    \/ get_topology_details
    \/ get_current_topology
    \/ set_current_topology
    \/ enable_current_topology
    \/ get_overlap_limits
    \/ enum_display_grids
    \/ enum_display_grids_v2_fill
    \/ enum_display_grids_v1
    \/ enum_display_grids_v1_fill
    \/ set_display_grids
    \/ validate_display_grids
    \/ validate_enumerated_grids
    \/ set_enumerated_grids
    \/ get_display_viewports_by_resolution
    \/ returned

Spec == Init /\ [][Next]_vars

(***************************************************************************)
(* Properties.                                                             *)
(***************************************************************************)
Done == pc = "done"

LastCall == calls[Len(calls)]

TwoPhase == {"get_topology", "enum_display_grids"}

\* the operation ended with a fill call; CountCall is the count call before it
Filled == Done /\ op \in TwoPhase /\ Len(calls) >= 2 /\ LastCall.phase = "fill"

CountCall == calls[Len(calls) - 1]

IsZero(out) == \A k \in 1..Len(out) : out[k] = 0

\* C1: in every two-phase enumeration, whatever counts the driver writes back in the
\* fill call, each returned sequence is no longer than the capacity allocated for it
\* from the count call.
C1_ReturnedWithinCapacity ==
    (Filled /\ result.kind = "Ok") =>
        \A i \in 1..Len(result.lens) : result.lens[i] <= bufs[i].cap

\* C2: when the fill call succeeds and reports fewer entries than the count call
\* did, for GPUs and displays independently, the returned sequence has exactly the
\* length the fill call reported.
C2_ShrinkTruncates ==
    (Filled /\ result.kind = "Ok" /\ CountCall.phase = "count"
        /\ CountCall.path = LastCall.path) =>
        \A i \in 1..Len(LastCall.out) :
            LastCall.out[i] < CountCall.out[i] => result.lens[i] = LastCall.out[i]

\* C2 witness: get_topology returned after the GPU count shrank between the calls
C2_Witness ==
    /\ Filled
    /\ op = "get_topology"
    /\ result.kind = "Ok"
    /\ CountCall.out = <<2, 1>>
    /\ LastCall.out = <<1, 1>>
    /\ result.lens = <<1, 1>>

\* C3: when the fill call reports a larger count than the buffer allocated, the
\* enumeration goes back to its count call, or, after three attempts that all grew,
\* fails with the error "topology changed during enumeration".
C3_GrowthRestarts ==
    (calls # <<>> /\ LastCall.phase = "fill" /\ LastCall.status = "Ok"
        /\ \E i \in 1..Len(LastCall.out) : LastCall.out[i] > LastCall.cap[i]) =>
        \/ ~Done /\ Cardinality({i \in 1..Len(calls) : calls[i].phase = "fill"}) < 3
        \/ /\ Done
           /\ Cardinality({i \in 1..Len(calls) : calls[i].phase = "fill"}) = 3
           /\ result = Err("topology changed during enumeration")

\* C4: when the count call of a two-phase enumeration succeeds and reports zero
\* entries, no fill call follows it and the operation returns an empty success.
C4_ZeroCountReturnsAtOnce ==
    \A i \in 1..Len(calls) :
        (calls[i].phase = "count" /\ calls[i].status = "Ok" /\ IsZero(calls[i].out)) =>
            /\ i = Len(calls)
            /\ Done => (result.kind = "Ok" /\ IsZero(result.lens))

PathCalls(path) == {i \in 1..Len(calls) : calls[i].path = path}

V1Pcs == {"enum_display_grids_v1", "enum_display_grids_v1_fill"}

\* the V2 attempt of enum_display_grids ended with IncompatibleStructVersion
V2Incompatible ==
    \E j \in PathCalls("enum_display_grids_v2") :
        /\ calls[j].status = "IncompatibleStructVersion"
        /\ \A h \in PathCalls("enum_display_grids_v2") : h <= j

\* C5: enum_display_grids attempts V2 first; it attempts V1 if and only if the V2
\* attempt failed with IncompatibleStructVersion and then returns what the V1
\* attempt returned, which is a success when the V1 calls succeed; a V2 success and
\* any other V2 error are returned without a V1 call.
C5_FallbackIffIncompatible ==
    op = "enum_display_grids" =>
        /\ calls[1].path = "enum_display_grids_v2"
        /\ (pc \in V1Pcs \/ PathCalls("enum_display_grids_v1") # {}) <=> V2Incompatible
        /\ (Done /\ V2Incompatible) =>
            /\ LastCall.path = "enum_display_grids_v1"
            /\ LastCall.status # "Ok" => result = Err(LastCall.status)
            /\ (LastCall.status = "Ok" /\ LastCall.phase = "count") => result = Ok(<<0>>)
            /\ (LastCall.status = "Ok" /\ LastCall.phase = "fill"
                    /\ LastCall.out[1] <= LastCall.cap[1]) => result = Ok(LastCall.out)
        /\ (Done /\ ~V2Incompatible) =>
            /\ LastCall.path = "enum_display_grids_v2"
            /\ LastCall.status # "Ok" => result = Err(LastCall.status)
            /\ LastCall.status = "Ok" => result.kind \in {"Ok", "Abort"}

\* C5 witness: a driver that rejects the V2 grid tag; the V2 fill call failed with
\* IncompatibleStructVersion and the V1 enumeration returned grids
C5_Witness ==
    /\ Done
    /\ op = "enum_display_grids"
    /\ "NV_MOSAIC_GRID_TOPO_VER2" \in rejects
    /\ V2Incompatible
    /\ Len(calls) = 4
    /\ LastCall.path = "enum_display_grids_v1"
    /\ result = Ok(<<2>>)

\* the operations whose struct has an older or alternate version
Versioned ==
    {"query_capabilities", "get_status_parameters", "get_supported_topologies",
     "get_current_topology", "get_overlap_limits", "validate_display_grids",
     "set_display_grids", "enum_display_grids"}

\* call j repeats call i with another version of the struct
Retries(i, j) ==
    /\ j > i
    /\ calls[j].fn = calls[i].fn
    /\ \/ calls[j].path # calls[i].path
       \/ \E k \in 1..Len(calls[j].sent) :
            k <= Len(calls[i].sent) /\ calls[j].sent[k].variant # calls[i].sent[k].variant

\* C6: in each operation whose struct has an older or alternate version, the first
\* reply of IncompatibleStructVersion is followed by a retry with that version
\* before the operation returns.
C6_IncompatibleIsRetried ==
    (Done /\ op \in Versioned) =>
        \A i \in 1..Len(calls) :
            (/\ calls[i].status = "IncompatibleStructVersion"
             /\ \A h \in 1..(i - 1) : calls[h].status # "IncompatibleStructVersion") =>
                \E j \in 1..Len(calls) : Retries(i, j)

\* C7: apart from the V2 to V1 fallback of enum_display_grids, a non-success status
\* of any driver call ends the operation: no call follows it, the operation returns
\* that status as its error, and nothing else is returned.
C7_ErrorsPropagate ==
    \A i \in 1..Len(calls) :
        (/\ calls[i].status # "Ok"
         /\ ~(/\ op = "enum_display_grids"
              /\ calls[i].path = "enum_display_grids_v2"
              /\ calls[i].status = "IncompatibleStructVersion")) =>
            /\ i = Len(calls)
            /\ Done
            /\ result = Err(calls[i].status)
            /\ bufs = <<>>

\* C7 witness: get_topology whose fill call failed
C7_Witness ==
    /\ Done
    /\ op = "get_topology"
    /\ Len(calls) = 2
    /\ calls[1].status = "Ok"
    /\ calls[2].status = "NvidiaDeviceNotFound"
    /\ result = Err("NvidiaDeviceNotFound")

\* C8: every version constant is size + ver * 2^16 with size below 2^16: its low 16
\* bits are the byte size of its struct and its high 16 bits its version number.
C8_TagPacksSizeAndVersion ==
    \A e \in VersionTable(ptrBytes) :
        /\ size_of(e.struct) < Pow2_16
        /\ e.tag = size_of(e.struct) + e.ver * Pow2_16
        /\ GET_NVAPI_SIZE(e.tag) = size_of(e.struct)
        /\ e.tag \div Pow2_16 = e.ver

\* C8 witness: query_capabilities sent a struct whose version field holds the size
\* of NV_GSYNC_CAPABILITIES_V2 and the version 2
C8_Witness ==
    /\ Done
    /\ op = "query_capabilities"
    /\ GET_NVAPI_SIZE(calls[1].sent[1].version) = size_of(NV_GSYNC_CAPABILITIES_V2)
    /\ calls[1].sent[1].version \div Pow2_16 = 2

\* the operations that forward a caller's struct, and the types of those structs
Forwarding ==
    {"set_current_topology", "get_overlap_limits", "get_topology_details",
     "adjust_sync_delay", "set_control_parameters"}

CallerVariants ==
    {"NVAPI_MOSAIC_TOPO_BRIEF_VER", "NVAPI_MOSAIC_DISPLAY_SETTING_VER2",
     "NV_GSYNC_DELAY_VER", "NV_GSYNC_CONTROL_PARAMS_VER"}

\* C9: in every operation that forwards a caller's versioned struct, that struct
\* reaches the driver with a version field that is not zero and is the constant of
\* the variant sent.
C9_ForwardedStructIsTagged ==
    op \in Forwarding =>
        \A i \in 1..Len(calls) : \A k \in 1..Len(calls[i].sent) :
            calls[i].sent[k].variant \in CallerVariants =>
                /\ calls[i].sent[k].version # 0
                /\ calls[i].sent[k].version = TagOf(calls[i].sent[k].variant, ptrBytes)

\* C10: every display entry passed to NvAPI_GSync_SetSyncStateSettings has version
\* NV_GSYNC_DISPLAY_VER and every grid passed to NvAPI_Mosaic_SetDisplayGrids or
\* NvAPI_Mosaic_ValidateDisplayGrids has version NV_MOSAIC_GRID_TOPO_VER, whatever
\* the caller had left in the entry.
C10_EntriesCarryTheConstant ==
    \A i \in 1..Len(calls) : \A k \in 1..Len(calls[i].sent) :
        /\ calls[i].sent[k].variant = "NV_GSYNC_DISPLAY_VER" =>
            calls[i].sent[k].version = NV_GSYNC_DISPLAY_VER
        /\ (/\ calls[i].fn \in {"NvAPI_Mosaic_SetDisplayGrids",
                                "NvAPI_Mosaic_ValidateDisplayGrids"}
            /\ calls[i].sent[k].variant = "NV_MOSAIC_GRID_TOPO_VER2") =>
            calls[i].sent[k].version = NV_MOSAIC_GRID_TOPO_VER

\* k structs of one type, each with the version field v
Tags(k, variant, v) == [i \in 1..k |-> Sent(variant, v)]

\* C11: in the fill call of every two-phase enumeration the buffers hold exactly as
\* many elements as the count call reported, and every element carries the version
\* constant of its type: NV_GSYNC_GPU_VER and NV_GSYNC_DISPLAY_VER in get_topology,
\* NV_MOSAIC_GRID_TOPO_VER2 on the V2 path, NV_MOSAIC_GRID_TOPO_VER1 on the V1 path.
C11_FillBufferSizedAndTagged ==
    \A i \in 1..Len(calls) :
        calls[i].phase = "fill" =>
            /\ i >= 2
            /\ calls[i - 1].phase = "count"
            /\ calls[i - 1].path = calls[i].path
            /\ calls[i - 1].status = "Ok"
            /\ calls[i].cap = calls[i - 1].out
            /\ calls[i].sent =
                 IF calls[i].path = "get_topology"
                 THEN Tags(calls[i - 1].out[1], "NV_GSYNC_GPU_VER", NV_GSYNC_GPU_VER(ptrBytes))
                      \o Tags(calls[i - 1].out[2], "NV_GSYNC_DISPLAY_VER", NV_GSYNC_DISPLAY_VER)
                 ELSE IF calls[i].path = "enum_display_grids_v2"
                 THEN Tags(calls[i - 1].out[1], "NV_MOSAIC_GRID_TOPO_VER2",
                           NV_MOSAIC_GRID_TOPO_VER2)
                 ELSE Tags(calls[i - 1].out[1], "NV_MOSAIC_GRID_TOPO_VER1",
                           NV_MOSAIC_GRID_TOPO_VER1)

\* C11 witness: the V1 fill call of enum_display_grids made with two tagged V1 grids
C11_Witness ==
    /\ op = "enum_display_grids"
    /\ Len(calls) = 4
    /\ LastCall.phase = "fill"
    /\ LastCall.path = "enum_display_grids_v1"
    /\ LastCall.cap = <<2>>
    /\ Len(LastCall.sent) = 2
    /\ LastCall.sent[2].version = NV_MOSAIC_GRID_TOPO_VER1


\* thread t has its resolution, or is past it
Resolved(t) == thread[t].pc \in {"resolved", "returned"}

\* C12: however often and from whichever thread an interface ID is resolved, two
\* threads racing on the first use of one wrapper included, every resolution gives
\* the one entry point the driver has for that ID; the wrapper's CACHE slot holds 0
\* or that pointer and nothing else, and a slot that is not 0 never changes again.
C12_OnePointerPerWrapper ==
    /\ [](\A fn \in Wrappers :
            /\ CACHE[fn] \in {0, EntryPoint(fn)}
            /\ \A t \in Threads :
                (thread[t].fn = fn /\ Resolved(t) /\ thread[t].res.kind = "Ok") =>
                    thread[t].ptr = EntryPoint(fn)
            /\ \A call \in invoked : call[1] = fn => call[2] = EntryPoint(fn))
    /\ [][\A fn \in Wrappers : CACHE[fn] # 0 => CACHE'[fn] = CACHE[fn]]_vars

\* both threads found the slot empty and asked the driver; one has stored its
\* pointer and the other is about to store over it
C12_Witness ==
    /\ thread["main"].fn = thread["worker"].fn
    /\ At("main", "store")
    /\ At("worker", "resolved")
    /\ thread["worker"].asked
    /\ CACHE[thread["main"].fn] # 0

\* C13: a call of a wrapper that begins after the wrapper's interface ID was resolved
\* calls through the pointer in the CACHE slot and never asks the driver's
\* query-interface entry point.
C13_CachedCallsAskNoMore ==
    \A t \in Threads :
        thread[t].cached =>
            /\ ~thread[t].asked
            /\ thread[t].pc \notin {"query", "store"}
            /\ Resolved(t) =>
                /\ thread[t].res.kind = "Ok"
                /\ thread[t].ptr = CACHE[thread[t].fn]
            /\ At(t, "returned") => <<thread[t].fn, CACHE[thread[t].fn]>> \in invoked

C13_Witness ==
    \E t \in Threads :
        /\ thread[t].cached
        /\ At(t, "returned")
        /\ thread[t].made = MaxCalls

\* C14: when the driver does not know a wrapper's interface ID, the wrapper calls
\* through no pointer at all (null is never called), returns the status code of the
\* resolution error, and the caller gets the typed error NotSupported from the
\* translation of that code.
C14_UnknownIdFailsClosed ==
    /\ \A call \in invoked : call[1] \in exports /\ call[2] # 0
    /\ \A t \in Threads :
        (At(t, "returned") /\ thread[t].fn \notin exports) =>
            /\ thread[t].ret = KnownCodes.NotSupported
            /\ thread[t].result.kind = "Err"
            /\ thread[t].result.err.name = "NotSupported"

C14_Witness ==
    \E t \in Threads :
        /\ At(t, "returned")
        /\ thread[t].fn \notin exports
        /\ thread[t].asked
        /\ invoked # {}

\* C15: for every status code a bound function returns, the translation is success
\* exactly when the code is 0, and the error of any other code gives the code back
\* from raw(), codes outside the table of known errors included.
C15_TranslationKeepsTheCode ==
    \A t \in Threads :
        At(t, "returned") =>
            /\ thread[t].result.kind = "Ok" <=> thread[t].ret = 0
            /\ thread[t].ret # 0 =>
                /\ thread[t].result.kind = "Err"
                /\ raw(thread[t].result.err) = thread[t].ret

C15_Witness ==
    \E t \in Threads :
        /\ At(t, "returned")
        /\ thread[t].ret = -2147483647 - 1
        /\ thread[t].result.err.name = "Unknown"

\* the driver reports that the system has no G-SYNC hardware: success with a count
\* of 0, or the status of a device that was not found
NoSyncHardware ==
    \/ LastCall.status = "NvidiaDeviceNotFound"
    \/ LastCall.status = "Ok" /\ LastCall.out = <<0>>

\* C16: enum_sync_devices returns Ok with an empty vector, never an error, whenever
\* the system has no G-SYNC hardware, whichever way the driver reports that.
C16_NoHardwareIsEmptyOk ==
    (Done /\ op = "enum_sync_devices" /\ NoSyncHardware) => result = Ok(<<0>>)

\* C17: in every display entry that set_sync_state_settings and
\* set_sync_state_settings_from_topology send, the field the caller did not specify,
\* isMasterable, carries the display's current value and not zero: for
\* set_sync_state_settings_from_topology the isMasterable of the input entry at the
\* same position.
C17_UnspecifiedFieldsKeepCurrent ==
    /\ (Done /\ op = "set_sync_state_settings_from_topology") =>
           \A i \in 1..Len(LastCall.sent) :
               LastCall.sent[i].isMasterable = args.displays[i].isMasterable
    /\ (Done /\ op = "set_sync_state_settings") =>
           \A i \in 1..Len(LastCall.sent) :
               LastCall.sent[i].isMasterable = isMasterable(LastCall.sent[i].displayId)

\* the caller's next call is `to`, right after its call `from` succeeded
Then(from, to) ==
    /\ session.last.op = from
    /\ session.last.status = "Ok"
    /\ session'.last.op = to

\* the fields of NV_GSYNC_CONTROL_PARAMS in the struct s
ControlOf(s) == [f \in DOMAIN device.control |-> s[f]]

\* C18 as stated: set_control_parameters with the struct get_control_parameters just
\* returned succeeds, the value it returns is the caller's buffer after the call, and
\* a get_control_parameters that follows returns the values that were written
\* (polarity, vmode, interval, source, interlaceMode, syncSourceIsOutput).
C18_WriteBackSucceeds ==
    [][/\ Then("get_control_parameters", "set_control_parameters") =>
            /\ session'.last.status = "Ok"
            /\ session'.last.value = <<params_after(session.last.value[1])>>
       /\ (Then("set_control_parameters", "get_control_parameters")
           /\ session'.last.status = "Ok") =>
            ControlOf(session'.last.value[1]) = ControlOf(session.last.sent[1])]_vars

\* C18, amended: the driver may refuse the write.  When set_control_parameters with
\* the struct get_control_parameters just returned succeeds, the six fields it sent
\* are the ones that were read, the value it returns is the caller's buffer after
\* the call, the device is left as it was, and a get_control_parameters that follows
\* returns the values that were written.
C18_AcceptedWriteBackRoundTrips ==
    [][/\ (Then("get_control_parameters", "set_control_parameters")
           /\ session'.last.status = "Ok") =>
            /\ ControlOf(session'.last.sent[1]) = ControlOf(session.last.value[1])
            /\ session'.last.value = <<params_after(session.last.value[1])>>
            /\ device' = device
       /\ (Then("set_control_parameters", "get_control_parameters")
           /\ session'.last.status = "Ok") =>
            ControlOf(session'.last.value[1]) = ControlOf(session.last.sent[1])]_vars

C18_Witness ==
    /\ session.last.op = "set_control_parameters"
    /\ session.last.status = "Ok"
    /\ session.last.value[1].version = NV_GSYNC_CONTROL_PARAMS_VER
    /\ session.last.value[1].interval = 1
    /\ device.control = Control(2, 1)

\* C19: set_sync_state_settings_from_topology with the displays get_topology just
\* returned sends one entry per input display, in the same order, with the same
\* displayId and syncState, and changes nothing on the device: no display that was
\* synchronized becomes unsynchronized.
C19_ReapplyIsANoOp ==
    [][Then("get_topology", "set_sync_state_settings_from_topology") =>
        LET displays == session.last.value
            sent == session'.last.sent
        IN  /\ Len(sent) = Len(displays)
            /\ \A i \in 1..Len(sent) :
                /\ sent[i].displayId = displays[i].displayId
                /\ sent[i].syncState = displays[i].syncState
            /\ \A id \in DisplayId : device.sync[id] # 0 => device'.sync[id] # 0
            /\ device' = device]_vars

C19_Witness ==
    /\ session.last.op = "set_sync_state_settings_from_topology"
    /\ session.last.status = "Ok"
    /\ Len(session.last.sent) = 2
    /\ session.last.sent[2].syncState = 2
    /\ device.sync[1] = 1

\* the state of the Mosaic session
MosaicState ==
    IF device.topo = "enabled" THEN "Enabled"
    ELSE IF device.topo = "disabled" THEN "ConfiguredButDisabled"
    ELSE IF session.queried THEN "Queried"
    ELSE "Unqueried"

\* the step is a successful call of `name` with the flag `enable`
Succeeds(name, enable) ==
    /\ session'.last.op = name
    /\ session'.last.status = "Ok"
    /\ session'.last.value = <<enable>>

Queries ==
    {"get_supported_topologies", "get_topology_details", "get_current_topology",
     "get_overlap_limits", "enum_display_grids", "validate_display_grids",
     "get_display_viewports_by_resolution", "query_capabilities", "get_topology",
     "get_control_parameters", "get_sync_status", "get_status_parameters"}

\* the step is a query
Querying == session'.last.op \in Queries

C23_NoCallWithAStaleHandle ==
    /\ session.last.op = "mode_set" => ~session.queried
    /\ ~session.last.stale

\* C24: on success validate_display_grids returns exactly one status struct per
\* input grid, in grid order: the result is as long as the slice (empty for an empty
\* slice), the driver was handed the grids followed by as many statuses, and each
\* status was sent with the version NV_MOSAIC_DISPLAY_TOPO_STATUS_VER.
C24_OneTaggedStatusPerGrid ==
    (Done /\ op = "validate_display_grids") =>
        LET n == Len(args.grids)
        IN  /\ Len(calls) = 1
            /\ Len(LastCall.sent) = 2 * n
            /\ \A i \in 1..n :
                /\ LastCall.sent[i].variant = "NV_MOSAIC_GRID_TOPO_VER2"
                /\ LastCall.sent[n + i] =
                     Sent("NV_MOSAIC_DISPLAY_TOPO_STATUS_VER", NV_MOSAIC_DISPLAY_TOPO_STATUS_VER)
            /\ result.kind = "Ok" => result.lens = <<n>>
            /\ result.kind \in {"Ok", "Err"}

C24_Witness ==
    /\ Done
    /\ op = "validate_display_grids"
    /\ result = Ok(<<2>>)
    /\ Len(args.grids) = 2
    /\ LastCall.sent[4].version = NV_MOSAIC_DISPLAY_TOPO_STATUS_VER

\* C24 on the empty slice: an Ok that holds no status
C24_EmptyWitness ==
    /\ Done
    /\ op = "validate_display_grids"
    /\ args.grids = <<>>
    /\ result = Ok(<<>> \o <<0>>)

\* C25: for every enum nvenum! generates, from_raw(r) is Ok exactly when r is one of
\* the declared values, and then raw() of the result is r; from_raw(v.raw()) is
\* Ok(v) for every variant v; every other integer, the gaps between the declared
\* values included, gives Err, and nothing panics.
C25_FromRawIsTheInverseOfRaw ==
    LET decl == Enums[value.type]
    IN  /\ value.op = "from_raw" =>
            /\ value.out.kind \in {"Ok", "Err"}
            /\ value.out.kind = "Ok" <=> Declared(decl, value.raw)
            /\ value.out.kind = "Ok" =>
                /\ value.out.variant \in Names(decl)
                /\ enum_raw(decl, value.out.variant) = value.raw
        /\ value.op = "round_trip" => value.out = Variant("Ok", value.variant)

\* C25 witness: 20 lies in the gap of MosaicTopo between 14 and 24 and is refused
C25_Witness ==
    /\ value.op = "from_raw"
    /\ value.type = "NV_MOSAIC_TOPO"
    /\ value.raw = 20
    /\ value.out.kind = "Err"

\* C26: the Vec the V1 fallback returns has as many grids as were read, in the same
\* order; each is tagged NV_MOSAIC_GRID_TOPO_VER2 and has the V1 grid's rows, columns,
\* displayCount, gridFlags and displaySettings; each of its NV_MOSAIC_MAX_DISPLAYS
\* displays has the V1 display's displayId, overlapX, overlapY, rotation and
\* cloneGroup, and pixelShiftType 0.
C26_V1GridsConvertFieldByField ==
    value.op = "grids_v2" =>
        /\ Len(value.grids_v2) = Len(value.grids_v1)
        /\ \A k \in 1..Len(value.grids_v1) :
            LET old == value.grids_v1[k]
                new == value.grids_v2[k]
            IN  /\ new.version = NV_MOSAIC_GRID_TOPO_VER2
                /\ new.rows = old.rows
                /\ new.columns = old.columns
                /\ new.displayCount = old.displayCount
                /\ new.gridFlags = old.gridFlags
                /\ new.displaySettings = old.displaySettings
                /\ DOMAIN new.displays = 0..(NV_MOSAIC_MAX_DISPLAYS - 1)
                /\ \A i \in 0..(NV_MOSAIC_MAX_DISPLAYS - 1) :
                    /\ new.displays[i].displayId = old.displays[i].displayId
                    /\ new.displays[i].overlapX = old.displays[i].overlapX
                    /\ new.displays[i].overlapY = old.displays[i].overlapY
                    /\ new.displays[i].rotation = old.displays[i].rotation
                    /\ new.displays[i].cloneGroup = old.displays[i].cloneGroup
                    /\ new.displays[i].pixelShiftType = 0

\* C26 witness: two different grids were read, the second with one active display
\* and an entry in its last slot, and both were converted
C26_Witness ==
    /\ value.op = "grids_v2"
    /\ Len(value.grids_v2) = 2
    /\ value.grids_v1[1] # value.grids_v1[2]
    /\ value.grids_v1[2].displayCount = 1
    /\ value.grids_v1[2].displays[NV_MOSAIC_MAX_DISPLAYS - 1].displayId = 9
    /\ value.grids_v2[2].displays[NV_MOSAIC_MAX_DISPLAYS - 1].displayId = 9

\* C27: when the unmodified result of a successful enum_display_grids is passed to
\* validate_display_grids or set_display_grids, every grid goes out in a struct
\* version the driver that answered the enumeration accepts, so that the follow-up
\* call cannot be refused for the tag of a grid.
C27_EnumeratedGridsGoOutAsAccepted ==
    (pc = "done" /\ op \in {"validate_enumerated_grids", "set_enumerated_grids"}) =>
        LET follow_up == calls[Len(calls)]
        IN  \A k \in 1..Len(args.grids) : Accepts(follow_up.sent[k])

\* C30: the grid tags the facade sends are the ones the compatibility test writes by
\* hand: a V1 grid goes out with version 0x00010a28 (size 2600, version 1), a V2
\* grid with version 0x00020e28 (size 3624, version 2).
C30_GridTagsAreTheHandWrittenOnes ==
    /\ buffer_v1_version = nvversion(buffer_v1_grid_size, 1)
    /\ buffer_v2_version = nvversion(buffer_v2_grid_size, 2)
    /\ \A i \in 1..Len(calls) :
        \A k \in 1..Len(calls[i].sent) :
            LET s == calls[i].sent[k]
            IN  /\ (s.variant = "NV_MOSAIC_GRID_TOPO_VER1" /\ calls[i].phase = "fill") =>
                    s.version = buffer_v1_version
                /\ (s.variant = "NV_MOSAIC_GRID_TOPO_VER2" /\ calls[i].phase = "fill") =>
                    s.version = buffer_v2_version

\* C28: whatever count the driver writes back with a success status,
\* enum_sync_devices returns exactly that many devices, the count is at most
\* NVAPI_MAX_GSYNC_DEVICES, and the call does not panic on the fixed array.
C28_EnumSyncDevicesStaysInTheArray ==
    (Done /\ op = "enum_sync_devices") =>
        /\ result.kind # "Panic"
        /\ LastCall.status = "Ok" =>
            /\ LastCall.out[1] <= NVAPI_MAX_GSYNC_DEVICES
            /\ result = Ok(LastCall.out)

\* the declared flags of decl that the value b contains, in declaration order
RECURSIVE ContainedIn(_, _)
ContainedIn(decl, b) ==
    IF decl = <<>> THEN <<>>
    ELSE (IF contains(b, Head(decl).value) THEN <<Head(decl).name>> ELSE <<>>)
             \o ContainedIn(Tail(decl), b)

\* whether s is f with some of its entries left out
IsPrefixOf(s, f) == Len(s) <= Len(f) /\ \A i \in 1..Len(s) : s[i] = f[i]

\* C29: for every flag type and starting value, the calls of next() yield the
\* declared flags the starting value contains, each once and in declaration order,
\* and then None: what was yielded so far is the beginning of that list, and it is
\* the whole list once None was returned; this also for a type with a flag of
\* value 0 and for types whose flags share bits.
C29_NextYieldsEachContainedFlagOnce ==
    value.op \in {"flags", "next"} =>
        LET all == ContainedIn(FlagTypes[value.type], value.start)
        IN  /\ IsPrefixOf(value.yielded, all)
            /\ value.out.kind = "None" => value.yielded = all

=========================================================================
